---------------------------- MODULE Spec2Model ----------------------------
(***************************************************************************)
(* Ledger-state transactors of rippled-hooks: the payment-channel          *)
(* transactors (PayChan.cpp), SetHook (SetHook.cpp) and the hook runtime   *)
(* (applyHook.cpp), modelled as a state machine over one ledger view.      *)
(*                                                                         *)
(* Every transactor phase (preflight / preclaim / doApply) is an operator  *)
(* translated from its code.  doApply operators return the terminal status *)
(* together with the view as the code left it (partial mutations of a      *)
(* failing doApply included); the action built on them commits that view   *)
(* only on tesSUCCESS, which is what the transactor framework does.        *)
(***************************************************************************)
EXTENDS Integers, Sequences, FiniteSets, TLC

VARIABLES
    accounts,         \* AccountID -> AccountRoot (sfBalance, sfOwnerCount, flags) or NoEntry
    channels,         \* PayChan keylet -> PayChan entry (a function on the existing keys)
    lines,            \* AccountID -> trust line to the issuer (balance, locked) or NoEntry
    dirs,             \* AccountID -> owner directory: the sequence of keys it references
    hooks,            \* AccountID -> Hook entry or NoEntry
    hookStates,       \* AccountID -> (state key -> HookState entry), on the existing keys
    parentCloseTime,  \* view.info().parentCloseTime
    rules,            \* view.rules(): the amendments that are enabled
    last,             \* the transaction applied last, the entry it found, its status and phases
    expirationSetAt   \* history: PayChan keylet -> the parentCloseTime at which its
                      \* sfExpiration was set since it was last absent, None while absent

vars == <<accounts, channels, lines, dirs, hooks, hookStates, parentCloseTime, rules, last,
          expirationSetAt>>

-----------------------------------------------------------------------------
(* Bounds of the model *)

\* largest amount (XRP drops or IOU units) a transaction carries
MaxAmt == 2
\* parentCloseTime runs over 0..MaxTime
MaxTime == 2

-----------------------------------------------------------------------------
(* Values *)

NoEntry == [absent |-> TRUE]
\* an absent optional field (std::nullopt) of a time, tag or page
None == -1

Issuer == "gw"
XRPCur == "XRP"
IOUCur == "USD"

\* STAmount: an issue and a value.  `cur = XRPCur` is native XRP.
Amt(c, v) == [cur |-> c, val |-> v]
XRP(v) == Amt(XRPCur, v)
IOU(v) == Amt(IOUCur, v)
\* an absent optional STAmount
NoAmount == Amt("none", 0)
\* an absent optional sfPublicKey / sfSignature
NoKey == "none"
NoSig == [signer |-> NoKey]

isXRP(a) == a.cur = XRPCur

\* a second issuer of the currency of IOUCur: `cur` names the issue of an amount, the
\* currency together with its issuer
OtherIssuer == "gw2"
OtherIOUCur == "USD/gw2"
\* amount.getCurrency(), amount.getIssuer()
getCurrency(a) == IF a.cur = OtherIOUCur THEN IOUCur ELSE a.cur
getIssuer(a) == IF a.cur = OtherIOUCur THEN OtherIssuer ELSE Issuer

\* amounts that are comparable only when they have one issuer too
Comparable_sameIssue(a, b) == a.cur = b.cur

\* STAmount arithmetic and ordering are defined only on comparable amounts, both
\* native or both of one currency, whoever the issuers are (areComparable); on the
\* others the C++ operators throw (std::runtime_error).  A sum or difference has
\* the issue of its left operand.
Comparable(a, b) == getCurrency(a) = getCurrency(b)
zeroed(a) == Amt(a.cur, 0)

tesSUCCESS == "tesSUCCESS"
isTesSuccess(t) == t = tesSUCCESS

Max(a, b) == IF a >= b THEN a ELSE b

\* a doApply result: terminal status and the view as the code left it
R(t, v) == [ter |-> t, view |-> v]

View == [accounts |-> accounts, channels |-> channels, lines |-> lines, dirs |-> dirs,
         hooks |-> hooks, hookStates |-> hookStates]

-----------------------------------------------------------------------------
(* External collaborators, modelled from their interfaces *)

\* view.fees().accountReserve(ownerCount): base reserve plus one increment per owned entry
ReserveBase == 1
ReserveInc == 1
accountReserve(n) == ReserveBase + n * ReserveInc

\* adjustOwnerCount(view, sle, amount): sfOwnerCount += amount, confined to >= 0
adjustOwnerCount(v, a, d) ==
    [v EXCEPT !.accounts[a].OwnerCount = Max(0, @ + d)]

\* view.dirInsert / dirAdd: append the key to the owner directory; returns the page
DirPage == 0
dirInsert(v, a, key) == [v EXCEPT !.dirs[a] = Append(@, key)]

\* view.dirRemove: FALSE when the directory does not reference the key
dirHas(v, a, key) == \E i \in 1..Len(v.dirs[a]) : v.dirs[a][i] = key
dirRemove(v, a, key) ==
    [v EXCEPT !.dirs[a] = SelectSeq(@, LAMBDA k : k # key)]

\* keylet::line(account, issuer, currency): the trust lines of Issuer are kept under
\* the name of the account, the ones of OtherIssuer under the names below
lineKeylet(a, amount) ==
    IF getIssuer(amount) # OtherIssuer THEN a
    ELSE CASE a = "alice" -> "alice/gw2"
           [] a = "bob" -> "bob/gw2"
           [] OTHER -> "none/gw2"

\* view.peek(keylet::line(...)): NoEntry when the ledger holds no such line
peekLine(v, a, amount) ==
    IF lineKeylet(a, amount) \in DOMAIN v.lines THEN v.lines[lineKeylet(a, amount)] ELSE NoEntry

\* trustTransferAllowed(view, parties, issue): every party that is not the issuer
\* holds a trust line for the issue; native XRP has no trust lines
trustTransferAllowed(v, parties, amount) ==
    IF isXRP(amount) THEN "tecNO_LINE"
    ELSE IF \E p \in parties : p # getIssuer(amount) /\ peekLine(v, p, amount) = NoEntry
         THEN "tecNO_LINE"
    ELSE tesSUCCESS

\* trustAdjustLockedBalance(view, line, delta, lockDelta, DryRun): the status a wet
\* run would return, without side effect
trustAdjustLockedBalanceDry(v, a, amount, delta) ==
    IF ~rules.PaychanAndEscrowForTokens THEN "tefINTERNAL"
    ELSE IF isXRP(amount) \/ peekLine(v, a, amount) = NoEntry THEN "tecNO_LINE"
    ELSE IF peekLine(v, a, amount).locked + delta > peekLine(v, a, amount).balance
         THEN "tecUNFUNDED_PAYMENT"
    ELSE IF peekLine(v, a, amount).locked + delta < 0 THEN "tecINTERNAL"
    ELSE tesSUCCESS

\* trustAdjustLockedBalance(..., WetRun): lockedBalance += delta when the dry run succeeds
trustAdjustLockedBalanceWet(v, a, amount, delta) ==
    LET t == trustAdjustLockedBalanceDry(v, a, amount, delta)
    IN  IF isTesSuccess(t)
        THEN R(t, [v EXCEPT !.lines[lineKeylet(a, amount)].locked = @ + delta])
        ELSE R(t, v)

\* trustTransferLockedBalance(view, actor, src, dst, amount, WetRun): move `amount`
\* of src's locked balance to dst's line
trustTransferLockedBalance(v, src, dst, amount) ==
    IF ~rules.PaychanAndEscrowForTokens THEN R("tefINTERNAL", v)
    ELSE IF peekLine(v, src, amount) = NoEntry \/ peekLine(v, dst, amount) = NoEntry
         THEN R("tecNO_LINE", v)
    ELSE IF peekLine(v, src, amount).locked < amount.val
            \/ peekLine(v, src, amount).balance < amount.val
         THEN R("tecUNFUNDED_PAYMENT", v)
    ELSE R(tesSUCCESS,
           [v EXCEPT !.lines[lineKeylet(src, amount)].locked = @ - amount.val,
                     !.lines[lineKeylet(src, amount)].balance = @ - amount.val,
                     !.lines[lineKeylet(dst, amount)].balance = @ + amount.val])

\* publicKeyType(pk): the key types that are recognised
publicKeyType(pk) == pk \in {"PKa", "PKb"}

\* serializePayChanAuthorization(msg, channel, amount): "CLM\0" || channel || amount
serializePayChanAuthorization(key, amount) == [chan |-> key, amt |-> amount]

\* verify(pk, msg, sig, canonical): a signature is the pair (signing key, message)
verify(pk, msg, sig) == sig.signer = pk /\ sig.msg = msg

\* preflight1 / preflight2 check the envelope (fee, sequence, transaction signature)
preflight1(tx) == tesSUCCESS
preflight2(tx) == tesSUCCESS

-----------------------------------------------------------------------------
(* Keylets *)

payChanKeylet(account, dst, seq) == <<"paychan", account, dst, seq>>
hookKeylet(account) == <<"hook", account, "", 0>>
hookStateKeylet(account, key) == <<"hookstate", account, key, 0>>
ledgerEntryType(key) == key[1]

-----------------------------------------------------------------------------
(* PayChan.cpp: closeChannel *)

\* closeRefund that hands back all of sfAmount, what was paid included
closeRefund_all(slep) == slep.Amount

\* auto const amount = (*slep)[sfAmount] - (*slep)[sfBalance]
closeRefund(slep) == Amt(slep.Amount.cur, slep.Amount.val - slep.Balance.val)

\* view.erase(slep) that leaves the entry in the ledger
eraseChannel_keep(v, key) == v

\* view.erase(slep)
eraseChannel(v, key) == [v EXCEPT !.channels = [k \in DOMAIN @ \ {key} |-> @[k]]]

closeChannel(v, key) ==
    LET slep == v.channels[key]
        src == slep.Account
        dst == slep.Destination
        amount == closeRefund(slep)
        dry == IF isXRP(amount) THEN tesSUCCESS
               ELSE trustAdjustLockedBalanceDry(v, src, amount, -amount.val)
        \* Remove PayChan from owner directory
        v1 == dirRemove(v, src, key)
        dstPaged == slep.DestinationNode # None /\ rules.fixPayChanRecipientOwnerDir
        \* Remove PayChan from recipient's owner directory, if present
        v2 == IF dstPaged THEN dirRemove(v1, dst, key) ELSE v1
        wet == trustAdjustLockedBalanceWet(v2, src, amount, -amount.val)
        \* Transfer amount back to owner
        v3 == IF isXRP(amount)
              THEN [v2 EXCEPT !.accounts[src].Balance = @ + amount.val]
              ELSE wet.view
        \* decrement owner count
        v4 == adjustOwnerCount(v3, src, -1)
        \* Remove PayChan from ledger
        v5 == eraseChannel(v4, key)
    IN  IF ~isXRP(amount) /\ ~rules.PaychanAndEscrowForTokens THEN R("tefINTERNAL", v)
        ELSE IF ~isTesSuccess(dry) THEN R(dry, v)
        ELSE IF ~dirHas(v, src, key) THEN R("tefBAD_LEDGER", v)
        ELSE IF dstPaged /\ ~dirHas(v1, dst, key) THEN R("tefBAD_LEDGER", v1)
        ELSE IF v.accounts[src] = NoEntry THEN R("tefINTERNAL", v2)
        ELSE IF ~isXRP(amount) /\ ~isTesSuccess(wet.ter) THEN R(wet.ter, v2)
        ELSE R(tesSUCCESS, v5)

-----------------------------------------------------------------------------
(* PayChan.cpp: PayChanCreate *)

\* an IOU amount whose currency code spells XRP; no amount of the model is one
isFakeXRP(a) == a.cur = "XRP(iou)"
\* isLegalNet: the mantissa and exponent are in range; every amount of the model is
isLegalNet(a) == TRUE

PayChanCreate_preflight(tx) ==
    IF rules.fix1543 /\ tx.Flags # {} THEN "temINVALID_FLAG"
    ELSE IF ~isTesSuccess(preflight1(tx)) THEN preflight1(tx)
    ELSE IF ~isXRP(tx.Amount) /\ ~rules.PaychanAndEscrowForTokens THEN "temBAD_AMOUNT"
    ELSE IF ~isXRP(tx.Amount) /\ ~isLegalNet(tx.Amount) THEN "temBAD_AMOUNT"
    ELSE IF ~isXRP(tx.Amount) /\ isFakeXRP(tx.Amount) THEN "temBAD_CURRENCY"
    ELSE IF ~isXRP(tx.Amount) /\ tx.Account = getIssuer(tx.Amount) THEN "temDST_IS_SRC"
    ELSE IF tx.Amount.val <= 0 THEN "temBAD_AMOUNT"
    ELSE IF tx.Account = tx.Destination THEN "temDST_IS_SRC"
    ELSE IF ~publicKeyType(tx.PublicKey) THEN "temMALFORMED"
    ELSE preflight2(tx)

PayChanCreate_preclaim(v, tx) ==
    LET account == tx.Account
        sle == v.accounts[account]
        amount == tx.Amount
        balance == sle.Balance
        reserve == accountReserve(sle.OwnerCount + 1)
        dst == tx.Destination
        allowed == trustTransferAllowed(v, {account, dst}, amount)
        dry == trustAdjustLockedBalanceDry(v, account, amount, amount.val)
        sled == v.accounts[dst]
    IN  IF sle = NoEntry THEN "terNO_ACCOUNT"
        ELSE IF balance < reserve THEN "tecINSUFFICIENT_RESERVE"
        \* Check reserve and funds availability
        ELSE IF isXRP(amount) /\ balance < reserve + amount.val THEN "tecUNFUNDED"
        \* the else branch is taken by every amount that passes the test above,
        \* XRP amounts included
        ELSE IF ~rules.PaychanAndEscrowForTokens THEN "tecINTERNAL"
        ELSE IF ~isTesSuccess(allowed) THEN allowed
        ELSE IF ~isTesSuccess(dry) THEN dry
        \* Check destination account
        ELSE IF sled = NoEntry THEN "tecNO_DST"
        ELSE IF sled.RequireDestTag /\ tx.DestinationTag = None THEN "tecDST_TAG_NEEDED"
        ELSE IF ~rules.DepositAuth /\ sled.DisallowXRP THEN "tecNO_TARGET"
        ELSE tesSUCCESS

\* dirInsert returns no page when the directory has no room left. The model does not
\* count the pages of a directory: which of the two inserts of a create finds its
\* directory full, if any, is an input of the step.
NoRoom == {"nowhere", "owner", "destination"}

PayChanCreate_doApply(v, tx, noRoom) ==
    LET account == tx.Account
        dst == tx.Destination
        amount == tx.Amount
        key == payChanKeylet(account, dst, tx.Sequence)
        slep == [Amount |-> tx.Amount,
                 Balance |-> zeroed(tx.Amount),
                 Account |-> account,
                 Destination |-> dst,
                 SettleDelay |-> tx.SettleDelay,
                 PublicKey |-> tx.PublicKey,
                 CancelAfter |-> tx.CancelAfter,
                 DestinationTag |-> tx.DestinationTag,
                 Expiration |-> None,
                 OwnerNode |-> DirPage,
                 DestinationNode |->
                     IF rules.fixPayChanRecipientOwnerDir THEN DirPage ELSE None]
        v1 == [v EXCEPT !.channels = [k \in DOMAIN @ \cup {key} |->
                                         IF k = key THEN slep ELSE @[k]]]
        \* Add PayChan to owner directory
        v2 == dirInsert(v1, account, key)
        \* Add PayChan to the recipient's owner directory
        v3 == IF rules.fixPayChanRecipientOwnerDir THEN dirInsert(v2, dst, key) ELSE v2
        wet == trustAdjustLockedBalanceWet(v3, account, amount, amount.val)
        \* Deduct owner's balance
        v4 == IF isXRP(amount)
              THEN [v3 EXCEPT !.accounts[account].Balance = @ - amount.val]
              ELSE wet.view
        \* increment owner count
        v5 == adjustOwnerCount(v4, account, 1)
    IN  IF v.accounts[account] = NoEntry THEN R("tefINTERNAL", v)
        \* if (!page) return tecDIR_FULL, the entry inserted
        ELSE IF noRoom = "owner" THEN R("tecDIR_FULL", v1)
        ELSE IF rules.fixPayChanRecipientOwnerDir /\ noRoom = "destination"
             THEN R("tecDIR_FULL", v2)
        ELSE IF ~isXRP(amount) /\ ~rules.PaychanAndEscrowForTokens THEN R("tefINTERNAL", v3)
        ELSE IF ~isXRP(amount) /\ peekLine(v, account, amount) = NoEntry
             THEN R("tecUNFUNDED_PAYMENT", v3)
        ELSE IF ~isXRP(amount) /\ ~isTesSuccess(wet.ter) THEN R("tefINTERNAL", v3)
        ELSE R(tesSUCCESS, v5)

-----------------------------------------------------------------------------
(* PayChan.cpp: PayChanFund *)

PayChanFund_preflight(tx) ==
    IF rules.fix1543 /\ tx.Flags # {} THEN "temINVALID_FLAG"
    ELSE IF ~isTesSuccess(preflight1(tx)) THEN preflight1(tx)
    ELSE IF ~isXRP(tx.Amount) /\ ~rules.PaychanAndEscrowForTokens THEN "temBAD_AMOUNT"
    ELSE IF ~isXRP(tx.Amount) /\ ~isLegalNet(tx.Amount) THEN "temBAD_AMOUNT"
    ELSE IF ~isXRP(tx.Amount) /\ isFakeXRP(tx.Amount) THEN "temBAD_CURRENCY"
    ELSE IF ~isXRP(tx.Amount) /\ tx.Account = getIssuer(tx.Amount) THEN "temDST_IS_SRC"
    ELSE IF tx.Amount.val <= 0 THEN "temBAD_AMOUNT"
    ELSE preflight2(tx)

\* the expiry test shared by PayChanFund::doApply and PayChanClaim::doApply
Expired(slep) ==
    \/ slep.CancelAfter # None /\ parentCloseTime >= slep.CancelAfter
    \/ slep.Expiration # None /\ parentCloseTime >= slep.Expiration

\* minExpiration that asks only that the expiration is not in the past
minExpiration_now(slep) == parentCloseTime

\* minExpiration that ignores the expiration the channel already has
minExpiration_settleOnly(slep) == parentCloseTime + slep.SettleDelay

\* the floor PayChanFund puts under a supplied sfExpiration
minExpiration(slep) ==
    LET m == parentCloseTime + slep.SettleDelay
    IN  IF slep.Expiration # None /\ slep.Expiration < m THEN slep.Expiration ELSE m

PayChanFund_doApply(v, tx) ==
    IF tx.Channel \notin DOMAIN v.channels THEN R("tecNO_ENTRY", v)
    ELSE
    LET k == tx.Channel
        slep == v.channels[k]
        amount == tx.Amount
        src == slep.Account
        txAccount == tx.Account
        \* if this is a Fund operation on an IOU then perform a dry run here
        dryHere == ~isXRP(amount) /\ rules.PaychanAndEscrowForTokens
        dry == trustAdjustLockedBalanceDry(v, src, amount, amount.val)
        extend == tx.Expiration
        v1 == IF extend # None THEN [v EXCEPT !.channels[k].Expiration = extend] ELSE v
        sle == v.accounts[txAccount]
        balance == sle.Balance
        reserve == accountReserve(sle.OwnerCount)
        wet == trustAdjustLockedBalanceWet(v1, src, amount, amount.val)
        v2 == IF isXRP(amount)
              THEN [v1 EXCEPT !.accounts[txAccount].Balance = @ - amount.val]
              ELSE wet.view
        v3 == [v2 EXCEPT !.channels[k].Amount = Amt(@.cur, @.val + amount.val)]
    IN  IF dryHere /\ ~isTesSuccess(dry) THEN R(dry, v)
        ELSE IF Expired(slep) THEN closeChannel(v, k)
        \* only the owner can add funds or extend
        ELSE IF src # txAccount THEN R("tecNO_PERMISSION", v)
        ELSE IF extend # None /\ extend < minExpiration(slep) THEN R("temBAD_EXPIRATION", v)
        ELSE IF sle = NoEntry THEN R("tefINTERNAL", v1)
        \* do not allow adding funds if dst does not exist
        ELSE IF v.accounts[slep.Destination] = NoEntry THEN R("tecNO_DST", v1)
        \* Check reserve and funds availability
        ELSE IF balance < reserve THEN R("tecINSUFFICIENT_RESERVE", v1)
        ELSE IF isXRP(amount) /\ balance < reserve + amount.val THEN R("tecUNFUNDED", v1)
        ELSE IF ~isXRP(amount) /\ ~rules.PaychanAndEscrowForTokens THEN R("tefINTERNAL", v1)
        ELSE IF ~isXRP(amount) /\ ~isTesSuccess(wet.ter) THEN R("tefINTERNAL", v1)
        \* sfAmount + tx[sfAmount] throws on amounts of different issues
        ELSE IF ~Comparable(slep.Amount, amount) THEN R("tefEXCEPTION", v2)
        ELSE R(tesSUCCESS, v3)

-----------------------------------------------------------------------------
(* PayChan.cpp: PayChanClaim *)

\* `*amt ? *amt : reqBalance` (line 665).  With sfAmount present (preflight has
\* checked it positive) this is sfAmount.  With sfAmount absent, `*amt` reads a
\* disengaged std::optional: the STAmount read is `uninit`, whatever the storage
\* holds, and reqBalance is used when that value tests as zero.
authAmt(tx, uninit) ==
    IF tx.Amount # NoAmount THEN tx.Amount
    ELSE IF uninit.val # 0 THEN uninit
    ELSE tx.Balance

PayChanClaim_preflight(tx, uninit) ==
    LET bal == tx.Balance
        amt == tx.Amount
        sig == tx.Signature
        reqBalance == bal
        auth == authAmt(tx, uninit)
        msg == serializePayChanAuthorization(tx.Channel, auth)
    IN  IF ~isTesSuccess(preflight1(tx)) THEN preflight1(tx)
        ELSE IF bal # NoAmount /\ ~isXRP(bal) /\ ~rules.PaychanAndEscrowForTokens
             THEN "temBAD_AMOUNT"
        ELSE IF bal # NoAmount /\ bal.val <= 0 THEN "temBAD_AMOUNT"
        ELSE IF amt # NoAmount /\ ~isXRP(amt) /\ ~rules.PaychanAndEscrowForTokens
             THEN "temBAD_AMOUNT"
        ELSE IF amt # NoAmount /\ amt.val <= 0 THEN "temBAD_AMOUNT"
        \* *bal > *amt throws on amounts of different issues
        ELSE IF bal # NoAmount /\ amt # NoAmount /\ ~Comparable(bal, amt) THEN "tefEXCEPTION"
        ELSE IF bal # NoAmount /\ amt # NoAmount /\ bal.val > amt.val THEN "temBAD_AMOUNT"
        ELSE IF rules.fix1543 /\ "tfOther" \in tx.Flags THEN "temINVALID_FLAG"
        ELSE IF "tfClose" \in tx.Flags /\ "tfRenew" \in tx.Flags THEN "temMALFORMED"
        ELSE IF sig = NoSig THEN preflight2(tx)
        ELSE IF ~(tx.PublicKey # NoKey /\ bal # NoAmount) THEN "temMALFORMED"
        ELSE IF ~Comparable(reqBalance, auth) THEN "tefEXCEPTION"
        ELSE IF reqBalance.val > auth.val THEN "temBAD_AMOUNT"
        ELSE IF ~publicKeyType(tx.PublicKey) THEN "temMALFORMED"
        ELSE IF ~verify(tx.PublicKey, msg, sig) THEN "temBAD_SIGNATURE"
        ELSE preflight2(tx)

\* claimOutOfFunds without the test against the channel's funds
claimOutOfFunds_noCeiling(reqBalance, chanFunds, chanBalance) ==
    reqBalance.val <= chanBalance.val

\* claimOutOfFunds without the "nothing requested" test
claimOutOfFunds_noFloor(reqBalance, chanFunds, chanBalance) ==
    reqBalance.val > chanFunds.val

\* claimOutOfFunds that lets a claim of what the channel already paid through
claimOutOfFunds_equalAllowed(reqBalance, chanFunds, chanBalance) ==
    \/ reqBalance.val > chanFunds.val
    \/ reqBalance.val < chanBalance.val

\* the bounds on a requested sfBalance: not above the channel's funds and
\* above what the channel has already paid
claimOutOfFunds(reqBalance, chanFunds, chanBalance) ==
    \/ reqBalance.val > chanFunds.val
    \/ reqBalance.val <= chanBalance.val

\* a tfClose that closes at once only a channel that has paid all its funds
closesImmediately_dryOnly(dst, txAccount, balance, amount) == balance = amount

\* Channel will close immediately if dry or the receiver closes
closesImmediately(dst, txAccount, balance, amount) ==
    dst = txAccount \/ balance = amount

\* a settleExpiration without the settle delay
settleExpiration_now(slep) == parentCloseTime

\* parentCloseTime + sfSettleDelay
settleExpiration(slep) == parentCloseTime + slep.SettleDelay

\* a tfClose that restarts the settle delay whatever expiration is in force
closeExpiration_restart(curExpiration, settle) == settle

\* the sfExpiration an owner's tfClose leaves: the settle expiration unless a
\* sooner one is in force
closeExpiration(curExpiration, settle) ==
    IF curExpiration = None \/ curExpiration > settle THEN settle ELSE curExpiration

\* a tfRenew that any party to the channel may ask for
renewRefused_never(src, txAccount) == FALSE

\* tfRenew is the owner's: if (src != txAccount) return tecNO_PERMISSION
renewRefused(src, txAccount) == src # txAccount

PayChanClaim_doApply(v, tx) ==
    IF tx.Channel \notin DOMAIN v.channels THEN R("tecNO_TARGET", v)
    ELSE
    LET k == tx.Channel
        slep == v.channels[k]
        src == slep.Account
        dst == slep.Destination
        txAccount == tx.Account
        curExpiration == slep.Expiration
        hasBalance == tx.Balance # NoAmount
        chanBalance == slep.Balance
        chanFunds == slep.Amount
        reqBalance == tx.Balance
        sled == v.accounts[dst]
        depositAuth == rules.DepositAuth
        \* (*slep)[sfBalance] = ctx_.tx[sfBalance]
        b1 == [v EXCEPT !.channels[k].Balance = reqBalance]
        reqDelta == Amt(reqBalance.cur, reqBalance.val - chanBalance.val)
        xfer == trustTransferLockedBalance(b1, src, dst, reqDelta)
        b2 == IF isXRP(reqDelta)
              THEN [b1 EXCEPT !.accounts[dst].Balance = @ + reqDelta.val]
              ELSE xfer.view
        \* the view after the sfBalance block
        v1 == IF hasBalance THEN b2 ELSE v
        renew == "tfRenew" \in tx.Flags
        v2 == IF renew THEN [v1 EXCEPT !.channels[k].Expiration = None] ELSE v1
        v3 == [v2 EXCEPT !.channels[k].Expiration =
                             closeExpiration(curExpiration, settleExpiration(slep))]
        \* the status the sfBalance block returns, tesSUCCESS when it falls through
        claim ==
            IF txAccount = dst /\ tx.Signature = NoSig THEN R("temBAD_SIGNATURE", v)
            ELSE IF tx.Signature # NoSig /\ tx.PublicKey # slep.PublicKey
                 THEN R("temBAD_SIGNER", v)
            ELSE IF ~Comparable(reqBalance, chanFunds) THEN R("tefEXCEPTION", v)
            ELSE IF claimOutOfFunds(reqBalance, chanFunds, chanBalance)
                 THEN R("tecUNFUNDED_PAYMENT", v)
            ELSE IF sled = NoEntry THEN R("tecNO_DST", v)
            ELSE IF ~depositAuth /\ txAccount = src /\ sled.DisallowXRP
                 THEN R("tecNO_TARGET", v)
            ELSE IF depositAuth /\ sled.DepositAuth /\ txAccount # dst
                    /\ txAccount \notin sled.Preauth
                 THEN R("tecNO_PERMISSION", v)
            ELSE IF ~isXRP(reqDelta) /\ ~rules.PaychanAndEscrowForTokens
                 THEN R("tefINTERNAL", b1)
            ELSE IF ~isXRP(reqDelta) /\ ~isTesSuccess(xfer.ter) THEN R(xfer.ter, b1)
            ELSE R(tesSUCCESS, b2)
    IN  IF Expired(slep) THEN closeChannel(v, k)
        ELSE IF txAccount # src /\ txAccount # dst THEN R("tecNO_PERMISSION", v)
        ELSE IF hasBalance /\ ~isTesSuccess(claim.ter) THEN claim
        ELSE IF renew /\ renewRefused(src, txAccount) THEN R("tecNO_PERMISSION", v1)
        ELSE IF "tfClose" \in tx.Flags
             THEN \* Channel will close immediately if dry or the receiver closes
                  IF closesImmediately(dst, txAccount, v2.channels[k].Balance,
                                       v2.channels[k].Amount)
                  THEN closeChannel(v2, k)
                  ELSE R(tesSUCCESS, v3)
        ELSE R(tesSUCCESS, v2)

-----------------------------------------------------------------------------
(* SetHook.cpp: SetHook *)

\* hook::maxHookDataSize(): the largest HookState blob, in bytes
maxHookDataSize == 128

\* std::ceil((double) n / (double) d)
Ceil(n, d) == (n + d - 1) \div d

\* the number of HookState entries one owner-count unit pays for
HookStateAllotment == 2
\* COMPUTE_HOOK_DATA_OWNER_COUNT(state_count): one unit per started allotment
COMPUTE_HOOK_DATA_OWNER_COUNT(n) == Ceil(n, HookStateAllotment)

\* A uint32_t is kept as the 32-bit two's-complement integer of the same bits: the
\* values from 2^31 up are the negative ones, 0xFFFFFFFF is -1.
MaxInt32 == 2147483647
\* a + b modulo 2^32
U32Add(a, b) ==
    IF a >= 0 /\ b >= 0 /\ a > MaxInt32 - b THEN ((a - MaxInt32) + (b - MaxInt32)) - 2
    ELSE IF a < 0 /\ b < 0 /\ a < (0 - MaxInt32 - 1) - b THEN ((a + MaxInt32) + (b + MaxInt32)) + 2
    ELSE a + b
\* a > b as unsigned values
U32Gt(a, b) == IF (a < 0) = (b < 0) THEN a > b ELSE a < 0

\* sfCreateCode: the blob's length and the guest program it encodes; NoBlob is an
\* absent field, a blob of size 0 is the empty blob
Code(size, prog) == [size |-> size, prog |-> prog]
NoBlob == Code(0, "absent")
EmptyBlob == Code(0, "empty")

\* view.peek(Keylet{ltCHILD, key}): the entry a directory references is in the ledger
entryExists(v, key) ==
    CASE ledgerEntryType(key) = "paychan" -> key \in DOMAIN v.channels
      [] ledgerEntryType(key) = "hook" -> v.hooks[key[2]] # NoEntry
      [] ledgerEntryType(key) = "hookstate" -> key[3] \in DOMAIN v.hookStates[key[2]]
      [] OTHER -> FALSE

\* an erase that leaves the entry in the ledger
eraseHookState_keep(v, account, key) == v

\* view.erase of a HookState entry
eraseHookState(v, account, key) ==
    [v EXCEPT !.hookStates[account] = [k \in DOMAIN @ \ {key} |-> @[k]]]

SetHook_preflight(tx) ==
    IF ~isTesSuccess(preflight1(tx)) THEN preflight1(tx)
    ELSE IF tx.CreateCode = NoBlob \/ tx.HookOn = None THEN "temMALFORMED"
    ELSE preflight2(tx)

\* the do-while of destroyEntireHookState over the directory entries cdirFirst /
\* cdirNext hand out: the entries the directory held when the walk began
RECURSIVE destroyEntries(_, _, _)
destroyEntries(v, account, entries) ==
    IF entries = <<>> THEN R(tesSUCCESS, v)
    ELSE LET dirEntry == Head(entries)
         IN  IF ~entryExists(v, dirEntry) THEN R("tefBAD_LEDGER", v)
             ELSE IF ledgerEntryType(dirEntry) = "hookstate"
                  THEN IF ~dirHas(v, account, dirEntry) THEN R("tefBAD_LEDGER", v)
                       ELSE destroyEntries(
                                eraseHookState(dirRemove(v, account, dirEntry),
                                               account, dirEntry[3]),
                                account, Tail(entries))
             ELSE destroyEntries(v, account, Tail(entries))

destroyEntireHookState(v, account) ==
    \* dirIsEmpty
    IF v.dirs[account] = <<>> THEN R(tesSUCCESS, v)
    ELSE destroyEntries(v, account, v.dirs[account])

removeHookFromLedger(v, account) ==
    \* If the hook doesn't exist we've already succeeded in deleting it
    IF v.hooks[account] = NoEntry THEN R(tesSUCCESS, v)
    \* Remove the node from the account directory
    ELSE IF ~dirHas(v, account, hookKeylet(account)) THEN R("tefBAD_LEDGER", v)
    \* remove the actual hook
    ELSE R(tesSUCCESS,
           [dirRemove(v, account, hookKeylet(account)) EXCEPT !.hooks[account] = NoEntry])

\* setHook without the test of the new reserve
reserveShort_never(mPriorBalance, newReserve) == FALSE

\* if (mPriorBalance < newReserve) return tecINSUFFICIENT_RESERVE
reserveShort(mPriorBalance, newReserve) == mPriorBalance < newReserve

\* a replacement that starts the state count again
oldStateCount_zero(oldHook) == 0

\* get the current state count, if any
oldStateCount(oldHook) == IF oldHook # NoEntry THEN oldHook.HookStateCount ELSE 0

\* an install that charges the new units without crediting the previous ones
addedOwnerCount_new(newReserveUnits, previousReserveUnits) == newReserveUnits

\* int64_t addedOwnerCount = newReserveUnits - previousReserveUnits
addedOwnerCount(newReserveUnits, previousReserveUnits) ==
    newReserveUnits - previousReserveUnits

setHook(v, tx) ==
    LET account == tx.Account
        hook_ == tx.CreateCode
        blobMax == maxHookDataSize
        oldHook == v.hooks[account]
        stateCount == oldStateCount(oldHook)
        \* get the previously reserved amount, if any
        previousReserveUnits == IF oldHook # NoEntry THEN oldHook.HookReserveCount ELSE 0
        \* get the new cost to store, if any
        newReserveUnits == Ceil(hook_.size, 5 * blobMax)
        \* remove the existing hook object in anticipation of readding
        removed == removeHookFromLedger(v, account)
        v1 == removed.view
        sle == v1.accounts[account]
        oldOwnerCount == sle.OwnerCount
        added == addedOwnerCount(newReserveUnits, previousReserveUnits)
        newReserve == accountReserve(oldOwnerCount + added)
        mPriorBalance == v.accounts[account].Balance
        hook == [Account |-> account,
                 CreateCode |-> hook_,
                 HookStateCount |-> stateCount,
                 HookReserveCount |-> newReserveUnits,
                 HookDataMaxSize |-> blobMax,
                 HookOn |-> tx.HookOn,
                 OwnerNode |-> DirPage]
        \* Add the hook to the account's directory
        v2 == IF hook_.size # 0
              THEN dirInsert([v1 EXCEPT !.hooks[account] = hook], account, hookKeylet(account))
              ELSE v1
        v3 == adjustOwnerCount(v2, account, added)
    IN  \* destroying the existing state data of a previously removed contract
        IF hook_.size = 0 /\ oldHook = NoEntry THEN destroyEntireHookState(v, account)
        ELSE IF ~isTesSuccess(removed.ter) THEN removed
        ELSE IF sle = NoEntry THEN R("tefINTERNAL", v1)
        ELSE IF reserveShort(mPriorBalance, newReserve) THEN R("tecINSUFFICIENT_RESERVE", v1)
        ELSE R(tesSUCCESS, v3)

SetHook_doApply(v, tx) == setHook(v, tx)

-----------------------------------------------------------------------------
(* applyHook.cpp: setHookState *)

\* setHookState without the test of the reserve at the next owner count
stateReserveShort_never(balance, ownerCount) == FALSE

\* if (STAmount((*sle)[sfBalance]).xrp() < newReserve) return tecINSUFFICIENT_RESERVE
stateReserveShort(balance, ownerCount) == balance < accountReserve(ownerCount)

setHookState(v, account, key, data) ==
    LET sle == v.accounts[account]
        hook == v.hooks[account]
        hookDataMax == hook.HookDataMaxSize
        stateCount == hook.HookStateCount
        oldStateReserve == COMPUTE_HOOK_DATA_OWNER_COUNT(stateCount)
        hasOld == key \in DOMAIN v.hookStates[account]
        ksl == hookStateKeylet(account, key)
        \* the blob is nil: delete the entry
        d1 == eraseHookState(dirRemove(v, account, ksl), account, key)
        lessCount == IF stateCount > 0 THEN stateCount - 1 ELSE stateCount
        d2 == IF COMPUTE_HOOK_DATA_OWNER_COUNT(lessCount) < oldStateReserve
              THEN adjustOwnerCount(d1, account, -1)
              ELSE d1
        d3 == [d2 EXCEPT !.hooks[account].HookStateCount =
                             COMPUTE_HOOK_DATA_OWNER_COUNT(lessCount)]
        \* the blob is not nil: replace the entry or add one
        moreCount == stateCount + 1
        grows == COMPUTE_HOOK_DATA_OWNER_COUNT(moreCount) > oldStateReserve
        ownerCount == sle.OwnerCount + 1
        w1 == IF hasOld THEN eraseHookState(v, account, key)
              ELSE [(IF grows THEN adjustOwnerCount(v, account, 1) ELSE v)
                       EXCEPT !.hooks[account].HookStateCount = moreCount]
        \* add new data to ledger; a replaced entry gets no sfOwnerNode
        newHookState == [HookData |-> data,
                         OwnerNode |-> IF hasOld THEN None ELSE DirPage]
        w2 == [w1 EXCEPT !.hookStates[account] =
                   [k \in DOMAIN @ \cup {key} |-> IF k = key THEN newHookState ELSE @[k]]]
        w3 == IF hasOld THEN w2 ELSE dirInsert(w2, account, ksl)
    IN  IF sle = NoEntry THEN R("tefINTERNAL", v)
        ELSE IF hook = NoEntry THEN R("tefINTERNAL", v)
        \* if the blob is too large don't set it
        ELSE IF Len(data) > hookDataMax THEN R("temHOOK_DATA_TOO_LARGE", v)
        ELSE IF Len(data) = 0
             THEN \* a request to remove a non-existent entry is defined as success
                  IF ~hasOld THEN R(tesSUCCESS, v)
                  ELSE IF ~dirHas(v, account, ksl) THEN R("tefBAD_LEDGER", v)
                  ELSE R(tesSUCCESS, d3)
        ELSE IF ~hasOld /\ grows /\ stateReserveShort(sle.Balance, ownerCount)
             THEN R("tecINSUFFICIENT_RESERVE", v)
        ELSE R(tesSUCCESS, w3)

-----------------------------------------------------------------------------
(* applyHook.cpp: the host API and hook::apply *)

\* the return codes of the host API
OUT_OF_BOUNDS == -1
INTERNAL_ERROR == -2
TOO_BIG == -3
TOO_SMALL == -4
DOESNT_EXIST == -5

\* the guest's linear memory is one page; a HookState key is a uint256
memory_length == 65536
KeySize == 32

\* the byte the guest's data segment holds at address p
GuestByte(p) == p % 256

\* the byte at address p: the last write that covers p, the data segment when
\* there is none, and `wild` outside the linear memory
RECURSIVE memByte(_, _, _)
memByte(memory, wild, p) ==
    IF p < 0 \/ p >= memory_length THEN wild
    ELSE IF memory = <<>> THEN GuestByte(p)
    ELSE LET w == memory[Len(memory)]
         IN  IF p >= w.at /\ p < w.at + Len(w.bytes) THEN w.bytes[p - w.at + 1]
             ELSE memByte(SubSeq(memory, 1, Len(memory) - 1), wild, p)

\* the bytes memory + ptr .. memory + ptr + len
memRead(hookCtx, ptr, len) ==
    [i \in 1..len |-> memByte(hookCtx.memory, hookCtx.wild, U32Add(ptr, i - 1))]

\* ripple::uint256::fromVoid(memory + key_ptr)
keyFromVoid(hookCtx, key_ptr) == memRead(hookCtx, key_ptr, KeySize)

\* a host call returns `value` to the guest
returned(hookCtx, value) == [hookCtx EXCEPT !.rets = Append(@, value)]

\* NOT_IN_BOUNDS(ptr, len)
NOT_IN_BOUNDS(ptr, len) ==
    U32Gt(ptr, memory_length) \/ U32Gt(U32Add(ptr, len), memory_length)

\* WRITE_WASM_MEMORY_AND_RETURN: copy min(src length, dst length) bytes to the guest
WRITE_WASM_MEMORY_AND_RETURN(hookCtx, dst_ptr, dst_len, src) ==
    LET n == IF U32Gt(dst_len, Len(src)) THEN Len(src) ELSE dst_len
    IN  IF U32Gt(U32Add(dst_ptr, n), memory_length) THEN returned(hookCtx, OUT_OF_BOUNDS)
        ELSE returned([hookCtx EXCEPT !.memory =
                          Append(@, [at |-> dst_ptr, bytes |-> SubSeq(src, 1, n)])], n)

output_dbg(hookCtx, ptr, len) ==
    returned(hookCtx, IF U32Gt(len, 1024) THEN 1024 ELSE len)

set_state(v, hookCtx, key_ptr, data_ptr_in, in_len) ==
    IF \/ U32Gt(U32Add(key_ptr, 32), memory_length)
       \/ U32Gt(U32Add(data_ptr_in, maxHookDataSize), memory_length)
    THEN returned(hookCtx, OUT_OF_BOUNDS)
    ELSE IF in_len = 0 THEN returned(hookCtx, TOO_SMALL)
    ELSE IF v.hooks[hookCtx.account] = NoEntry THEN returned(hookCtx, INTERNAL_ERROR)
    ELSE IF U32Gt(in_len, v.hooks[hookCtx.account].HookDataMaxSize)
         THEN returned(hookCtx, TOO_BIG)
    ELSE LET key == keyFromVoid(hookCtx, key_ptr)
             entry == [modified |-> TRUE, blob |-> memRead(hookCtx, data_ptr_in, in_len)]
         IN  returned([hookCtx EXCEPT !.changedState =
                          [k \in DOMAIN @ \cup {key} |-> IF k = key THEN entry ELSE @[k]]],
                      in_len)

get_state(v, hookCtx, key_ptr, data_ptr_out, out_len) ==
    IF U32Gt(U32Add(key_ptr, out_len), memory_length) THEN returned(hookCtx, OUT_OF_BOUNDS)
    ELSE LET key == keyFromVoid(hookCtx, key_ptr)
             account == hookCtx.account
         IN  \* first check if the requested state was previously cached this session
             IF key \in DOMAIN hookCtx.changedState
             THEN WRITE_WASM_MEMORY_AND_RETURN(hookCtx, data_ptr_out, out_len,
                                               hookCtx.changedState[key].blob)
             \* cache miss look it up
             ELSE IF v.hooks[account] = NoEntry THEN returned(hookCtx, INTERNAL_ERROR)
             ELSE IF key \notin DOMAIN v.hookStates[account]
                  THEN returned(hookCtx, DOESNT_EXIST)
             \* it exists add it to cache and return it
             ELSE LET b == v.hookStates[account][key].HookData
                      entry == [modified |-> FALSE, blob |-> b]
                  IN  WRITE_WASM_MEMORY_AND_RETURN(
                          [hookCtx EXCEPT !.changedState =
                              [k \in DOMAIN @ \cup {key} |-> IF k = key THEN entry ELSE @[k]]],
                          data_ptr_out, out_len, b)

\* an exit call after which the guest goes on running
_exit_goesOn(hookCtx, error_code, data_ptr_in, in_len, exitType) ==
    [hookCtx EXCEPT !.exitType = exitType, !.exitCode = error_code]

\* accept / reject / rollback; `exited` stands for wasmer_raise_runtime_error
_exit(hookCtx, error_code, data_ptr_in, in_len, exitType) ==
    IF data_ptr_in # 0 /\ NOT_IN_BOUNDS(data_ptr_in, in_len)
    THEN returned(hookCtx, OUT_OF_BOUNDS)
    ELSE [hookCtx EXCEPT
             !.exitReason = IF data_ptr_in # 0 THEN memRead(hookCtx, data_ptr_in, in_len)
                            ELSE @,
             !.exitType = exitType,
             !.exitCode = error_code,
             !.exited = TRUE]

\* one call of the guest into the host
Call(op, a, b, c) == [op |-> op, a |-> a, b |-> b, c |-> c]

hostCall(v, hookCtx, call) ==
    CASE call.op = "set_state" -> set_state(v, hookCtx, call.a, call.b, call.c)
      [] call.op = "get_state" -> get_state(v, hookCtx, call.a, call.b, call.c)
      [] call.op = "accept" -> _exit(hookCtx, call.a, call.b, call.c, "ACCEPT")
      [] call.op = "reject" -> _exit(hookCtx, call.a, call.b, call.c, "REJECT")
      [] call.op = "rollback" -> _exit(hookCtx, call.a, call.b, call.c, "ROLLBACK")
      [] call.op = "output_dbg" -> output_dbg(hookCtx, call.a, call.b)

\* the ranges memory + at .. memory + at + len the host reads or writes in one call
Range(at, len) == [at |-> at, len |-> len]

hostAccess(v, hookCtx, call) ==
    LET after == hostCall(v, hookCtx, call)
        ret == after.rets[Len(after.rets)]
    IN  CASE call.op = "set_state" ->
               \* uint256::fromVoid(memory + key_ptr), {memory + data_ptr_in, ... + in_len}
               IF Len(after.rets) > Len(hookCtx.rets) /\ ret > 0
               THEN {Range(call.a, KeySize), Range(call.b, call.c)}
               ELSE {}
          [] call.op = "get_state" ->
               IF U32Gt(U32Add(call.a, call.c), memory_length) THEN {}
               ELSE {Range(call.a, KeySize)}
                    \cup (IF Len(after.memory) > Len(hookCtx.memory)
                          THEN {Range(call.b, Len(after.memory[Len(after.memory)].bytes))}
                          ELSE {})
          [] call.op \in {"accept", "reject", "rollback"} ->
               \* std::string((const char*)(memory + data_ptr_in), in_len)
               IF call.b # 0 /\ ~NOT_IN_BOUNDS(call.b, call.c)
               THEN {Range(call.b, call.c)}
               ELSE {}
          [] call.op = "output_dbg" ->
               \* for (i = 0; i < len && i < memory_length; ++i) memory[ptr + i]
               LET len == IF U32Gt(call.b, 1024) THEN 1024 ELSE call.b
               IN  {Range(U32Add(call.a, i), 1) : i \in 0..(len - 1)}

\* wasmer_instance_call(instance, "hook", ...): the guest makes its calls in order
\* until one of them exits or it returns
RECURSIVE runGuest(_, _, _)
runGuest(v, hookCtx, calls) ==
    IF calls = <<>> \/ hookCtx.exited THEN hookCtx
    ELSE runGuest(v, hostCall(v, hookCtx, Head(calls)), Tail(calls))

\* the order of std::map<uint256, ...>: keys compare as big-endian numbers
keyLess(a, b) ==
    \E i \in 1..KeySize : a[i] < b[i] /\ \A j \in 1..(i - 1) : a[j] = b[j]

RECURSIVE keysInOrder(_)
keysInOrder(S) ==
    IF S = {} THEN <<>>
    ELSE LET first == CHOOSE k \in S : \A o \in S \ {k} : keyLess(k, o)
         IN  <<first>> \o keysInOrder(S \ {first})

\* the loop of commitChangesToLedger; what setHookState returns is dropped
RECURSIVE commitEntries(_, _, _)
commitEntries(v, hookCtx, keys) ==
    IF keys = <<>> THEN v
    ELSE LET key == Head(keys)
             cacheEntry == hookCtx.changedState[key]
         IN  commitEntries(
                 IF cacheEntry.modified
                 THEN setHookState(v, hookCtx.account, key, cacheEntry.blob).view
                 ELSE v,
                 hookCtx, Tail(keys))

commitChangesToLedger(v, hookCtx) ==
    commitEntries(v, hookCtx, keysInOrder(DOMAIN hookCtx.changedState))

\* the guest programs the blobs of the model encode: the keys lie at 0, 32 and 64
\* and in the last 32 bytes of the memory, the data at 128, the buffer get_state
\* fills at 256
K0 == 0
K1 == 32
K2 == 64
Data == 128
Out == 256
KTop == 65504
Programs ==
    [store1 |-> <<Call("set_state", K0, Data, 1), Call("accept", 0, 0, 0)>>,
     store3 |-> <<Call("set_state", K0, Data, 2), Call("set_state", K1, Data, 1),
                  Call("set_state", K2, Data, 1), Call("accept", 0, 0, 0)>>,
     refuse |-> <<Call("set_state", K1, Data, 1), Call("reject", 1, Data, 2)>>,
     undo   |-> <<Call("get_state", K0, Data + 8, 4), Call("set_state", K0, Data + 8, 1),
                  Call("output_dbg", Data, 4, 0), Call("rollback", 2, 0, 0)>>,
     fall   |-> <<Call("set_state", K2, Data, 0)>>,
     echo   |-> <<Call("set_state", K0, Data, 2), Call("get_state", K0, Out, 2),
                  Call("accept", 0, 0, 0)>>,
     reread |-> <<Call("get_state", K0, Out, 2), Call("set_state", K0, Data + 1, 2),
                  Call("get_state", K0, Out, 4), Call("accept", 0, 0, 0)>>,
     read   |-> <<Call("get_state", K0, Out, 2), Call("accept", 0, 0, 0)>>,
     erase  |-> <<Call("set_state", K0, Data, 0), Call("accept", 0, 0, 0)>>,
     high   |-> <<Call("set_state", KTop, Data, 1), Call("get_state", KTop, Out, 64),
                  Call("accept", 0, 0, 0)>>,
     retry  |-> <<Call("reject", 1, memory_length - 1, 4), Call("accept", 0, Data, 2),
                  Call("rollback", 2, 0, 0)>>,
     \* a key in the last byte of the memory, and one at 0xFFFFFFF0
     stray  |-> <<Call("get_state", memory_length - 1, Out, 0),
                  Call("output_dbg", memory_length - 1, 4, 0),
                  Call("set_state", -16, Data, 1), Call("rollback", 0, 0, 0)>>]

\* wasmer_instantiate succeeds on the blobs that encode a program
instantiates(hook) == hook.prog \in DOMAIN Programs

\* the HookContext hook::apply builds
newHookContext(account, wild) ==
    [account |-> account,
     changedState |-> [k \in {} |-> NoEntry],
     \* default is to rollback unless hook calls accept() or reject()
     exitType |-> "ROLLBACK",
     exitReason |-> <<>>,
     exitCode |-> -1,
     exited |-> FALSE,
     memory |-> <<>>,
     wild |-> wild,
     rets |-> <<>>]

\* the HookContext as the call of the guest's `hook` leaves it
hookRun(v, hook, account, wild) ==
    runGuest(v, newHookContext(account, wild), Programs[hook.prog])

\* hook::apply: the status returned and the view as the call left it
hook_apply(v, hook, account, wild) ==
    LET hookCtx == hookRun(v, hook, account, wild)
        v1 == IF hookCtx.exitType # "ROLLBACK" THEN commitChangesToLedger(v, hookCtx) ELSE v
    IN  IF ~instantiates(hook) THEN R("temMALFORMED", v)
        ELSE IF hookCtx.exitType = "ACCEPT" THEN R(tesSUCCESS, v1)
        ELSE R("terNO_AUTH", v1)

-----------------------------------------------------------------------------
(* The transactor framework: preflight, preclaim, doApply, commit or roll back *)

\* a framework that keeps the view of a failed doApply
Commit_any(r) ==
    /\ accounts' = r.view.accounts
    /\ channels' = r.view.channels
    /\ lines' = r.view.lines
    /\ dirs' = r.view.dirs
    /\ hooks' = r.view.hooks
    /\ hookStates' = r.view.hookStates

\* the view is committed only when doApply returns tesSUCCESS; every other
\* status leaves the ledger as it was (the fee aside)
Commit(r) ==
    LET v == IF isTesSuccess(r.ter) THEN r.view ELSE View
    IN  /\ accounts' = v.accounts
        /\ channels' = v.channels
        /\ lines' = v.lines
        /\ dirs' = v.dirs
        /\ hooks' = v.hooks
        /\ hookStates' = v.hookStates

\* applySteps: preclaim runs when preflight returns tesSUCCESS, doApply when
\* preclaim does.  `pf` and `pc` record what the two phases returned ("none"
\* for a phase that did not run).
Pipeline(pf, pc, ap) ==
    IF ~isTesSuccess(pf) THEN [ter |-> pf, view |-> View, pf |-> pf, pc |-> "none"]
    ELSE IF ~isTesSuccess(pc) THEN [ter |-> pc, view |-> View, pf |-> pf, pc |-> pc]
    ELSE [ter |-> ap.ter, view |-> ap.view, pf |-> pf, pc |-> pc]

\* no HookContext: the step ran no guest
NoHookCtx == [exitType |-> "none"]

NoTx == [tx |-> [TransactionType |-> "none"], ter |-> "none", pf |-> "none", pc |-> "none",
         slep |-> NoEntry, left |-> NoEntry, hookCtx |-> NoHookCtx]

\* ctx_.view().peek(k): the PayChan entry at the transaction's sfChannel, as the
\* transaction found it
Found(tx) ==
    IF "Channel" \in DOMAIN tx /\ tx.Channel \in DOMAIN channels
    THEN channels[tx.Channel]
    ELSE NoEntry

\* history: the time a channel's sfExpiration was set, kept while one stays set
ExpirationSetAt(before, after) ==
    [k \in DOMAIN after |->
        IF after[k].Expiration = None THEN None
        ELSE IF k \in DOMAIN before /\ before[k].Expiration # None THEN expirationSetAt[k]
        ELSE parentCloseTime]

\* what the step records: the transaction, the statuses of its phases, the PayChan
\* entry it found, the view as the operation left it (before the framework commits
\* or drops it) and the HookContext of the guest it ran
Observed(tx, r, hookCtx) ==
    /\ Commit(r)
    /\ last' = [tx |-> tx, ter |-> r.ter, pf |-> r.pf, pc |-> r.pc, slep |-> Found(tx),
                left |-> r.view, hookCtx |-> hookCtx]
    /\ expirationSetAt' = ExpirationSetAt(channels, channels')
    /\ UNCHANGED <<parentCloseTime, rules>>

Applied(tx, r) == Observed(tx, r, NoHookCtx)

-----------------------------------------------------------------------------
(* Transactions the model submits *)

Acct == {"alice", "bob", "carol"}
\* "dave" has no account root; the issuer has one
AllAcct == Acct \cup {"dave", Issuer}
Keys == {"PKa", "PKb"}
\* the sequence number PayChanCreate transactions carry: the model follows one
\* channel keylet, which is free again once its channel is erased
Seqs == {1}
\* the sfSettleDelay of the channels, in ledger closes
Delay == MaxTime

CreateTx(acc, dst, amt, sd, pk, ca, tag, fl, sq) ==
    [TransactionType |-> "PayChanCreate", Account |-> acc, Destination |-> dst,
     Amount |-> amt, SettleDelay |-> sd, PublicKey |-> pk, CancelAfter |-> ca,
     DestinationTag |-> tag, Flags |-> fl, Sequence |-> sq]

FundTx(acc, k, amt, exp, fl) ==
    [TransactionType |-> "PayChanFund", Account |-> acc, Channel |-> k,
     Amount |-> amt, Expiration |-> exp, Flags |-> fl]

ClaimTx(acc, k, bal, amt, sig, pk, fl) ==
    [TransactionType |-> "PayChanClaim", Account |-> acc, Channel |-> k,
     Balance |-> bal, Amount |-> amt, Signature |-> sig, PublicKey |-> pk, Flags |-> fl]

SetHookTx(acc, code, on) ==
    [TransactionType |-> "SetHook", Account |-> acc, CreateCode |-> code, HookOn |-> on]

\* the transaction that sets off the hook of `acc`
HookTx(acc) == [TransactionType |-> "Hook", Account |-> acc]

\* the signature `pk`'s holder makes over an authorization of `amt` on channel k
Sign(pk, k, amt) == [signer |-> pk, msg |-> serializePayChanAuthorization(k, amt)]

\* values the disengaged std::optional<STAmount> of line 665 may hold; the read
\* happens only when sfSignature is present and sfAmount is absent
UninitAmounts == {XRP(0), XRP(MaxAmt), IOU(MaxAmt)}
UninitRead(tx) ==
    IF tx.Signature # NoSig /\ tx.Amount = NoAmount THEN UninitAmounts ELSE {XRP(0)}

-----------------------------------------------------------------------------
(* Actions *)

PayChanCreate(tx) ==
    /\ tx.Sequence \in Seqs
    /\ payChanKeylet(tx.Account, tx.Destination, tx.Sequence) \notin DOMAIN channels
    /\ \E noRoom \in NoRoom :
          Applied(tx, Pipeline(PayChanCreate_preflight(tx),
                               PayChanCreate_preclaim(View, tx),
                               PayChanCreate_doApply(View, tx, noRoom)))

PayChanFund(tx) ==
    Applied(tx, Pipeline(PayChanFund_preflight(tx), tesSUCCESS,
                         PayChanFund_doApply(View, tx)))

PayChanClaim(tx, uninit) ==
    /\ Applied(tx, Pipeline(PayChanClaim_preflight(tx, uninit), tesSUCCESS,
                            PayChanClaim_doApply(View, tx)))

SetHook(tx) ==
    /\ tx.TransactionType = "SetHook"
    /\ Applied(tx, Pipeline(SetHook_preflight(tx), tesSUCCESS, SetHook_doApply(View, tx)))

\* a transaction implicates `account`, which has a hook installed: the hook runs
\* on the transaction's view
HookApply(account, wild) ==
    /\ hooks[account] # NoEntry
    /\ Observed(HookTx(account),
                Pipeline(tesSUCCESS, tesSUCCESS,
                         hook_apply(View, hooks[account].CreateCode, account, wild)),
                IF instantiates(hooks[account].CreateCode)
                THEN hookRun(View, hooks[account].CreateCode, account, wild)
                ELSE NoHookCtx)

\* a ledger closes: the next ledger's parentCloseTime is later
LedgerClose ==
    /\ parentCloseTime < MaxTime
    /\ parentCloseTime' = parentCloseTime + 1
    /\ last' = NoTx
    /\ UNCHANGED <<accounts, channels, lines, dirs, hooks, hookStates, rules, expirationSetAt>>

-----------------------------------------------------------------------------
(* Initial ledgers *)

AccountRoot(bal, oc) ==
    [Balance |-> bal, OwnerCount |-> oc, RequireDestTag |-> FALSE,
     DisallowXRP |-> FALSE, DepositAuth |-> FALSE, Preauth |-> {}]

\* the keylet of the channel alice -> bob
ChanKey == payChanKeylet("alice", "bob", 1)

\* an XRP channel alice -> bob that the ledger already holds: PayChanCreate::preclaim
\* lets no XRP channel through (see PayChanCreate_preclaim), so the XRP channels of
\* a ledger are the ones it inherited
Chan0(fixDir) ==
    [Amount |-> XRP(2), Balance |-> XRP(0), Account |-> "alice", Destination |-> "bob",
     SettleDelay |-> Delay, PublicKey |-> "PKa", CancelAfter |-> None,
     DestinationTag |-> None, Expiration |-> None, OwnerNode |-> DirPage,
     DestinationNode |-> IF fixDir THEN DirPage ELSE None]

Rules(tokens, fixDir, depositAuth, fix1543) ==
    [PaychanAndEscrowForTokens |-> tokens, fixPayChanRecipientOwnerDir |-> fixDir,
     DepositAuth |-> depositAuth, fix1543 |-> fix1543]

InitLedger(rs, withChan0) ==
    /\ rules = rs
    /\ accounts = [a \in AllAcct |->
                     CASE a = "alice" -> AccountRoot(4, IF withChan0 THEN 1 ELSE 0)
                       [] a = "dave" -> NoEntry
                       [] OTHER -> AccountRoot(2, 0)]
    /\ channels = IF withChan0
                  THEN [k \in {ChanKey} |-> Chan0(rs.fixPayChanRecipientOwnerDir)]
                  ELSE [k \in {} |-> NoEntry]
    /\ lines = [a \in AllAcct |->
                  CASE a = "alice" -> [balance |-> 3, locked |-> 0]
                    [] a = "bob" -> [balance |-> 0, locked |-> 0]
                    [] OTHER -> NoEntry]
    /\ dirs = [a \in AllAcct |->
                 IF withChan0 /\ (a = "alice" \/ (a = "bob" /\ rs.fixPayChanRecipientOwnerDir))
                 THEN <<ChanKey>> ELSE <<>>]
    /\ hooks = [a \in AllAcct |-> NoEntry]
    /\ hookStates = [a \in AllAcct |-> [k \in {} |-> NoEntry]]
    /\ parentCloseTime = 0
    /\ last = NoTx
    /\ expirationSetAt = [k \in DOMAIN channels |-> None]

\* a ledger with the token amendment off and an inherited XRP channel, or with the
\* amendment on and no channel yet
Init ==
    \/ InitLedger(Rules(FALSE, TRUE, TRUE, TRUE), TRUE)
    \/ InitLedger(Rules(TRUE, TRUE, TRUE, TRUE), FALSE)

-----------------------------------------------------------------------------
(* Input sets and specifications *)

Amounts == {XRP(n) : n \in 1..MaxAmt} \cup {IOU(n) : n \in 1..MaxAmt}

\* creates alice -> bob in either asset, with and without sfCancelAfter, and the
\* malformed or unfundable ones
CreateTxs ==
    {CreateTx("alice", "bob", a, Delay, "PKa", ca, None, {}, 1) : a \in Amounts, ca \in {None, 1}}
    \cup {CreateTx("alice", d, IOU(1), Delay, "PKa", None, None, {}, 1) : d \in {"alice", "dave"}}
    \cup {CreateTx("alice", "bob", IOU(0), Delay, "PKa", None, None, {}, 1),
          CreateTx("alice", "bob", IOU(1), Delay, "PKx", None, None, {}, 1)}

\* funds by the owner and by a third party, in the channel's asset and in the
\* other one, with and without sfExpiration
FundTxs(k, cur) ==
    {FundTx("alice", k, Amt(cur, 1), e, {}) : e \in {None} \cup 1..(MaxTime + 1)}
    \cup {FundTx(acc, k, a, None, {}) :
            acc \in {"alice", "carol"}, a \in {Amt(cur, 1), Amt(cur, MaxAmt), IOU(MaxAmt + 1)}}

ClaimTxs(k, cur) ==
    \* no sfBalance: close, renew or a bare touch
    {ClaimTx(acc, k, NoAmount, NoAmount, NoSig, NoKey, fl) :
        acc \in Acct, fl \in {{}, {"tfClose"}, {"tfRenew"}}}
    \* sfBalance without a signature
    \cup {ClaimTx("alice", k, Amt(cur, b), NoAmount, NoSig, NoKey, fl) :
            b \in 1..(MaxAmt + 1), fl \in {{}, {"tfClose"}}}
    \cup {ClaimTx(acc, k, Amt(cur, 1), NoAmount, NoSig, NoKey, {}) : acc \in {"bob", "carol"}}
    \* ... asking for a renewal with it, by the owner and by the destination
    \cup {ClaimTx(acc, k, Amt(cur, 1), NoAmount, NoSig, NoKey, {"tfRenew"}) :
            acc \in {"alice", "bob"}}
    \* sfBalance claimed by the destination under a signature of the channel's key
    \cup UNION {{ClaimTx("bob", k, Amt(cur, b), amt, Sign("PKa", k, Amt(cur, s)), "PKa", {}) :
                    amt \in {NoAmount, Amt(cur, b + 1)}, s \in {b, b + 1}} :
                b \in 1..(MaxAmt + 1)}
    \* ... and closing the channel with the claim, or asking for a renewal with it
    \cup {ClaimTx("bob", k, Amt(cur, 1), NoAmount, Sign("PKa", k, Amt(cur, 1)), "PKa", fl) :
            fl \in {{"tfClose"}, {"tfRenew"}}}
    \* ... and under a signature of another key
    \cup {ClaimTx(acc, k, Amt(cur, 1), NoAmount, Sign("PKb", k, Amt(cur, 1)), "PKb", {}) :
            acc \in {"alice", "bob"}}

Next ==
    \/ \E tx \in CreateTxs : PayChanCreate(tx)
    \/ \E k \in DOMAIN channels : \E tx \in FundTxs(k, channels[k].Amount.cur) : PayChanFund(tx)
    \/ \E k \in DOMAIN channels : \E tx \in ClaimTxs(k, channels[k].Amount.cur) :
          \E u \in UninitRead(tx) : PayChanClaim(tx, u)
    \/ LedgerClose

Spec == Init /\ [][Next]_vars

\* the specification of all five transactors: the hook of alice, installed, replaced
\* and removed by SetHook and run by HookApply, next to a channel alice -> bob
CodeSizes == {1, 5 * maxHookDataSize + 1}
SetHookTxs ==
    {SetHookTx("alice", Code(n, prog), 0) : n \in CodeSizes, prog \in {"store1", "store3"}}
    \cup {SetHookTx("alice", Code(1, prog), 0) : prog \in {"refuse", "undo", "fall", "garbage"}}
    \cup {SetHookTx("alice", EmptyBlob, 0), SetHookTx("alice", NoBlob, 0),
          SetHookTx("alice", Code(1, "store1"), None)}

LedgerCreateTxs ==
    {CreateTx("alice", "bob", a, Delay, "PKa", None, None, {}, 1) : a \in {XRP(1), IOU(1)}}

LedgerFundTxs(k, cur) == {FundTx("alice", k, Amt(cur, 1), None, {})}

LedgerClaimTxs(k, cur) ==
    {ClaimTx("alice", k, Amt(cur, 1), NoAmount, NoSig, NoKey, {}),
     ClaimTx("alice", k, NoAmount, NoAmount, NoSig, NoKey, {"tfClose"}),
     ClaimTx("bob", k, NoAmount, NoAmount, NoSig, NoKey, {"tfClose"})}

\* the bytes a read outside the guest's linear memory may give
WildBytes == {0}

LedgerNext ==
    \/ \E tx \in LedgerCreateTxs : PayChanCreate(tx)
    \/ \E k \in DOMAIN channels :
          \E tx \in LedgerFundTxs(k, channels[k].Amount.cur) : PayChanFund(tx)
    \/ \E k \in DOMAIN channels :
          \E tx \in LedgerClaimTxs(k, channels[k].Amount.cur) :
             \E u \in UninitRead(tx) : PayChanClaim(tx, u)
    \/ \E tx \in SetHookTxs : SetHook(tx)
    \/ \E wild \in WildBytes : HookApply("alice", wild)

LedgerSpec == Init /\ [][LedgerNext]_vars

\* the specification of the hook runtime: the hook of alice, installed, replaced and
\* removed by SetHook, runs each of the guest programs
HookSetTxs ==
    {SetHookTx("alice", Code(n, prog), 0) : n \in CodeSizes, prog \in {"store1", "store3"}}
    \cup {SetHookTx("alice", Code(1, prog), 0) :
            prog \in {"refuse", "undo", "fall", "echo", "reread", "read", "erase", "high",
                      "retry", "stray", "garbage"}}
    \cup {SetHookTx("alice", EmptyBlob, 0)}

HookNext ==
    \/ \E tx \in HookSetTxs : SetHook(tx)
    \/ \E wild \in WildBytes : HookApply("alice", wild)

HookSpec == Init /\ [][HookNext]_vars

\* the specification of the assets: a ledger with the token amendment on, in which
\* alice and bob hold a trust line with each of the two issuers of the currency;
\* alice creates a channel in the tokens of Issuer, and the channel is funded and
\* claimed in XRP and in the tokens of either issuer
OtherAmounts == {XRP(1), IOU(1), Amt(OtherIOUCur, 1)}

IssueInit ==
    /\ rules = Rules(TRUE, TRUE, TRUE, TRUE)
    /\ accounts = [a \in AllAcct |->
                     CASE a = "alice" -> AccountRoot(4, 0)
                       [] a = "dave" -> NoEntry
                       [] OTHER -> AccountRoot(2, 0)]
    /\ channels = [k \in {} |-> NoEntry]
    /\ lines = [a \in AllAcct \cup {"alice/gw2", "bob/gw2"} |->
                  CASE a = "alice" -> [balance |-> 3, locked |-> 0]
                    [] a = "alice/gw2" -> [balance |-> 2, locked |-> 0]
                    [] a \in {"bob", "bob/gw2"} -> [balance |-> 0, locked |-> 0]
                    [] OTHER -> NoEntry]
    /\ dirs = [a \in AllAcct |-> <<>>]
    /\ hooks = [a \in AllAcct |-> NoEntry]
    /\ hookStates = [a \in AllAcct |-> [k \in {} |-> NoEntry]]
    /\ parentCloseTime = 0
    /\ last = NoTx
    /\ expirationSetAt = [k \in DOMAIN channels |-> None]

IssueCreateTxs ==
    {CreateTx("alice", "bob", a, Delay, "PKa", None, None, {}, 1) :
        a \in {IOU(n) : n \in 1..MaxAmt}}

IssueFundTxs(k) == {FundTx("alice", k, a, None, {}) : a \in OtherAmounts}

IssueClaimTxs(k) ==
    {ClaimTx("alice", k, a, NoAmount, NoSig, NoKey, fl) :
        a \in OtherAmounts, fl \in {{}, {"tfClose"}}}
    \cup {ClaimTx("bob", k, a, NoAmount, Sign("PKa", k, a), "PKa", {}) : a \in OtherAmounts}

IssueNext ==
    \/ \E tx \in IssueCreateTxs : PayChanCreate(tx)
    \/ \E k \in DOMAIN channels : \E tx \in IssueFundTxs(k) : PayChanFund(tx)
    \/ \E k \in DOMAIN channels : \E tx \in IssueClaimTxs(k) :
          \E u \in UninitRead(tx) : PayChanClaim(tx, u)
    \/ LedgerClose

IssueSpec == IssueInit /\ [][IssueNext]_vars

\* the specification of closeChannel as a function of the entry and the view it is
\* handed: the views are drawn from the ones its checks tell apart (the amendments,
\* the owner's account, its trust line and locked balance, what the two owner
\* directories reference), and the step leaves the view as closeChannel left it
CloseViews ==
    {[rs |-> Rules(tokens, fixDir, TRUE, TRUE),
      slep |-> [Chan0(dstNode) EXCEPT !.Amount = Amt(cur, amount),
                                      !.Balance = Amt(cur, balance)],
      owner |-> owner, line |-> line, srcDir |-> srcDir, dstDir |-> dstDir] :
        tokens \in BOOLEAN, fixDir \in BOOLEAN, dstNode \in BOOLEAN,
        cur \in {XRPCur, IOUCur}, amount \in 1..MaxAmt, balance \in 0..MaxAmt,
        owner \in {NoEntry, AccountRoot(4, 1)},
        line \in {NoEntry} \cup {[balance |-> MaxAmt, locked |-> l] : l \in 0..MaxAmt},
        srcDir \in {<<>>, <<ChanKey>>}, dstDir \in {<<>>, <<ChanKey>>}}

CloseInit ==
    \E c \in CloseViews :
        /\ c.slep.Balance.val <= c.slep.Amount.val
        /\ rules = c.rs
        /\ accounts = [a \in AllAcct |->
                         CASE a = "alice" -> c.owner
                           [] a = "dave" -> NoEntry
                           [] OTHER -> AccountRoot(2, 0)]
        /\ channels = [k \in {ChanKey} |-> c.slep]
        /\ lines = [a \in AllAcct |->
                      CASE a = "alice" -> c.line
                        [] a = "bob" -> [balance |-> 0, locked |-> 0]
                        [] OTHER -> NoEntry]
        /\ dirs = [a \in AllAcct |->
                     CASE a = "alice" -> c.srcDir
                       [] a = "bob" -> c.dstDir
                       [] OTHER -> <<>>]
        /\ hooks = [a \in AllAcct |-> NoEntry]
        /\ hookStates = [a \in AllAcct |-> [k \in {} |-> NoEntry]]
        /\ parentCloseTime = 0
        /\ last = NoTx
        /\ expirationSetAt = [k \in {ChanKey} |-> None]

\* one invocation of closeChannel(slep, view, key, j)
CloseChannel(k) ==
    LET r == closeChannel(View, k)
    IN  /\ accounts' = r.view.accounts
        /\ channels' = r.view.channels
        /\ lines' = r.view.lines
        /\ dirs' = r.view.dirs
        /\ hooks' = r.view.hooks
        /\ hookStates' = r.view.hookStates
        /\ last' = [tx |-> [TransactionType |-> "closeChannel", Channel |-> k],
                    ter |-> r.ter, pf |-> "none", pc |-> "none", slep |-> channels[k],
                    left |-> r.view, hookCtx |-> NoHookCtx]
        /\ expirationSetAt' = ExpirationSetAt(channels, channels')
        /\ UNCHANGED <<parentCloseTime, rules>>

CloseNext == \E k \in DOMAIN channels : CloseChannel(k)

CloseSpec == CloseInit /\ [][CloseNext]_vars

-----------------------------------------------------------------------------
(* Properties *)

LastIs(type) == last.tx.TransactionType = type
LastOk(type) == LastIs(type) /\ isTesSuccess(last.ter)

\* C1: every PayChan entry in the ledger has 0 <= sfBalance <= sfAmount, in every
\* state that creates, funds, claims and the closes they trigger can reach.
C1_BalanceWithinAmount ==
    \A k \in DOMAIN channels :
        /\ 0 <= channels[k].Balance.val
        /\ channels[k].Balance.val <= channels[k].Amount.val

\* C1 witness: a claim has just drained a channel: sfBalance = sfAmount > 0.
C1_Witness ==
    /\ LastOk("PayChanClaim")
    /\ \E k \in DOMAIN channels :
          /\ last.tx.Channel = k
          /\ channels[k].Balance.val > 0
          /\ channels[k].Balance = channels[k].Amount

\* C2: while a channel exists its sfBalance never decreases from one ledger state
\* to the next, and a successful PayChanClaim with sfBalance on an unexpired
\* channel leaves sfBalance at the requested value, strictly above the previous one.
C2_ClaimMonotonic ==
    [][\A k \in DOMAIN channels :
          /\ k \in DOMAIN channels' =>
                channels'[k].Balance.val >= channels[k].Balance.val
          /\ ( /\ last'.tx.TransactionType = "PayChanClaim"
               /\ isTesSuccess(last'.ter)
               /\ last'.tx.Channel = k
               /\ last'.tx.Balance # NoAmount
               /\ ~Expired(channels[k]) )
             => /\ last'.tx.Balance.val > channels[k].Balance.val
                /\ k \in DOMAIN channels' => channels'[k].Balance = last'.tx.Balance
      ]_vars

\* C2 witness: a claim has raised the balance of a channel that had already paid
\* (the channel is still there, at the requested balance, above 1).
C2_Witness ==
    /\ LastOk("PayChanClaim")
    /\ last.tx.Balance # NoAmount
    /\ last.tx.Channel \in DOMAIN channels
    /\ channels[last.tx.Channel].Balance = last.tx.Balance
    /\ last.tx.Balance.val > 1

\* the transaction applied by the step, and the channel entry it found
StepIs(type, k) ==
    /\ last'.tx.TransactionType = type
    /\ last'.tx.Channel = k
    /\ isTesSuccess(last'.pf)

\* C3: a PayChanClaim by the channel's destination that raises sfBalance to B carried
\* a Signature that verifies under the channel's sfPublicKey over the authorization
\* of an amount A >= B for this channel, A being sfAmount, or B when sfAmount is
\* absent; and on a channel that has not expired a destination's claim with
\* sfBalance and no Signature fails and changes no channel, account or trust line.
C3_DestinationClaimAuthorized ==
    [][\A k \in DOMAIN channels :
          ( /\ StepIs("PayChanClaim", k)
            /\ last'.tx.Account = channels[k].Destination
            /\ last'.tx.Balance # NoAmount
            /\ ~Expired(channels[k]) )
          => LET tx == last'.tx
                 B == tx.Balance
                 A == IF tx.Amount # NoAmount THEN tx.Amount ELSE B
             IN  /\ isTesSuccess(last'.ter)
                    => /\ tx.Signature # NoSig
                       /\ verify(channels[k].PublicKey,
                                 serializePayChanAuthorization(k, A), tx.Signature)
                       /\ B.val <= A.val
                 /\ tx.Signature = NoSig
                    => /\ ~isTesSuccess(last'.ter)
                       /\ UNCHANGED <<channels, accounts, lines>>
      ]_vars

\* C4: on a channel that has not expired, a PayChanClaim by the owner, or by the
\* destination under a signature, any signature carried being of the channel's key,
\* whose sfBalance is equal to or below the channel's sfBalance or above its sfAmount
\* returns tecUNFUNDED_PAYMENT and changes no channel, account or trust line.
C4_OutOfRangeClaimUnfunded ==
    [][\A k \in DOMAIN channels :
          LET tx == last'.tx
              slep == channels[k]
          IN  ( /\ StepIs("PayChanClaim", k)
                /\ ~Expired(slep)
                /\ tx.Balance # NoAmount
                /\ Comparable(tx.Balance, slep.Amount)
                /\ \/ tx.Account = slep.Account /\ tx.Signature = NoSig
                   \/ /\ tx.Account \in {slep.Account, slep.Destination}
                      /\ tx.Signature # NoSig
                      /\ tx.PublicKey = slep.PublicKey
                /\ \/ tx.Balance.val <= slep.Balance.val
                   \/ tx.Balance.val > slep.Amount.val )
              => /\ last'.ter = "tecUNFUNDED_PAYMENT"
                 /\ UNCHANGED <<channels, accounts, lines>>
      ]_vars

\* C4 witness: the signed destination has asked for what the channel already paid
\* and was refused.
C4_Witness ==
    /\ LastIs("PayChanClaim")
    /\ last.ter = "tecUNFUNDED_PAYMENT"
    /\ last.tx.Signature # NoSig
    /\ last.tx.Channel \in DOMAIN channels
    /\ last.tx.Account = channels[last.tx.Channel].Destination
    /\ last.tx.Balance = channels[last.tx.Channel].Balance

\* an XRP PayChanCreate of X > 0 that passed preflight, by an owner holding
\* accountReserve(ownerCount + 1) + X to a destination that exists and raises
\* neither the RequireDestTag nor the DisallowXRP obstacle
FundedXRPCreate ==
    LET tx == last'.tx
    IN  /\ tx.TransactionType = "PayChanCreate"
        /\ isTesSuccess(last'.pf)
        /\ isXRP(tx.Amount)
        /\ tx.Amount.val > 0
        /\ accounts[tx.Account] # NoEntry
        /\ accounts[tx.Account].Balance
              >= accountReserve(accounts[tx.Account].OwnerCount + 1) + tx.Amount.val
        /\ accounts[tx.Destination] # NoEntry
        /\ ~(accounts[tx.Destination].RequireDestTag /\ tx.DestinationTag = None)
        /\ ~accounts[tx.Destination].DisallowXRP

\* C5: the preclaim of a funded XRP PayChanCreate returns tesSUCCESS, with
\* PaychanAndEscrowForTokens enabled and with it disabled.
C5_XRPCreatePassesPreclaim ==
    [][FundedXRPCreate => isTesSuccess(last'.pc)]_vars

C8_FundOnExpiredCloses ==
    [][\A k \in DOMAIN channels :
          (StepIs("PayChanFund", k) /\ Expired(channels[k]))
          => LET f == last'.tx.Account
             IN  /\ isTesSuccess(last'.ter)
                 /\ k \notin DOMAIN channels'
                 /\ accounts'[f].Balance >= accounts[f].Balance
                 /\ lines[f] # NoEntry => lines'[f].locked <= lines[f].locked
      ]_vars

\* C9: a PayChanClaim on a channel whose cancelAfter or expiration has passed closes
\* the channel, whoever submits it and whatever sfBalance and flags it carries: the
\* entry is erased, the owner gets sfAmount - sfBalance back (XRP on its balance, an
\* issued amount off its locked balance), its ownerCount drops by one, and the
\* destination's balance and trust line are what they were.
C9_ClaimOnExpiredCloses ==
    [][\A k \in DOMAIN channels :
          (StepIs("PayChanClaim", k) /\ Expired(channels[k]))
          => LET slep == channels[k]
                 o == slep.Account
                 d == slep.Destination
                 refund == slep.Amount.val - slep.Balance.val
             IN  /\ isTesSuccess(last'.ter)
                 /\ k \notin DOMAIN channels'
                 /\ IF isXRP(slep.Amount)
                    THEN /\ accounts'[o].Balance = accounts[o].Balance + refund
                         /\ lines' = lines
                    ELSE /\ accounts'[o].Balance = accounts[o].Balance
                         /\ lines'[o] = [lines[o] EXCEPT !.locked = @ - refund]
                 /\ accounts'[o].OwnerCount = accounts[o].OwnerCount - 1
                 /\ accounts'[d] = accounts[d]
                 /\ lines'[d] = lines[d]
      ]_vars

\* C9 witness: a third party's claim with sfBalance has gone through, which only
\* the sweep of an expired channel allows, and the channel that had paid is gone.
C9_Witness ==
    /\ LastOk("PayChanClaim")
    /\ last.tx.Account = "carol"
    /\ last.tx.Balance # NoAmount
    /\ last.tx.Channel \notin DOMAIN channels
    /\ parentCloseTime > 0
    /\ \/ accounts["bob"].Balance > 2
       \/ lines["bob"].balance > 0

\* the floor under a supplied sfExpiration, as section 4.3 states it
ExpirationFloor(slep) ==
    IF slep.Expiration # None /\ slep.Expiration < parentCloseTime + slep.SettleDelay
    THEN slep.Expiration
    ELSE parentCloseTime + slep.SettleDelay

\* an owner's PayChanFund with an sfExpiration on channel k, not expired
OwnerFundWithExpiration(k) ==
    /\ StepIs("PayChanFund", k)
    /\ last'.tx.Account = channels[k].Account
    /\ last'.tx.Expiration # None
    /\ ~Expired(channels[k])

ReserveMet ==
    \A a \in AllAcct :
        accounts[a] # NoEntry => accounts[a].Balance >= accountReserve(accounts[a].OwnerCount)

\* C7: from a ledger in which every account holds balance >= accountReserve(ownerCount),
\* a successful PayChanCreate, PayChanFund, PayChanClaim or SetHook, or a hook run
\* that is accepted and commits its state, leaves every account holding it.
C7_ReservePreserved ==
    [][(ReserveMet /\ isTesSuccess(last'.ter)) => ReserveMet']_vars

\* C7 witness: an accepted hook has committed state entries on an account that owns
\* a hook, a channel and state allotments and holds exactly its reserve.
C7_Witness ==
    /\ LastOk("Hook")
    /\ DOMAIN hookStates["alice"] # {}
    /\ DOMAIN channels # {}
    /\ accounts["alice"].OwnerCount >= 3
    /\ accounts["alice"].Balance = accountReserve(accounts["alice"].OwnerCount)

\* a PayChanFund carrying an sfExpiration on channel k, which has not expired and
\* whose expiration X is sooner than parentCloseTime + settleDelay
FundPastEarlierExpiration(k) ==
    /\ StepIs("PayChanFund", k)
    /\ last'.tx.Expiration # None
    /\ ~Expired(channels[k])
    /\ channels[k].Expiration # None
    /\ channels[k].Expiration < parentCloseTime + channels[k].SettleDelay

\* C11 as stated: on a channel whose expiration X is sooner than parentCloseTime +
\* settleDelay, no successful PayChanFund that supplies an Expiration leaves the
\* channel with an expiration greater than X.
C11_NoExtensionPastEarlier ==
    [][\A k \in DOMAIN channels :
          (FundPastEarlierExpiration(k) /\ isTesSuccess(last'.ter))
          => channels'[k].Expiration <= channels[k].Expiration
      ]_vars

\* C11: on such a channel X is the floor of a supplied Expiration E, not its
\* ceiling: a successful PayChanFund leaves the expiration at E with E >= X, and the
\* owner's fund with E >= X is never refused with temBAD_EXPIRATION.
C11_EarlierExpirationIsFloor ==
    [][\A k \in DOMAIN channels :
          FundPastEarlierExpiration(k)
          => LET E == last'.tx.Expiration
                 X == channels[k].Expiration
             IN  /\ isTesSuccess(last'.ter)
                    => /\ channels'[k].Expiration = E
                       /\ E >= X
                 /\ (last'.tx.Account = channels[k].Account /\ E >= X)
                    => last'.ter # "temBAD_EXPIRATION"
      ]_vars

\* C11 witness: a fund has moved an expiration X, sooner than parentCloseTime +
\* settleDelay, to a later time E > X.
C11_Witness ==
    /\ LastOk("PayChanFund")
    /\ last.slep # NoEntry
    /\ last.slep.Expiration # None
    /\ last.slep.Expiration > parentCloseTime
    /\ last.slep.Expiration < parentCloseTime + last.slep.SettleDelay
    /\ last.tx.Expiration # None
    /\ last.tx.Expiration > last.slep.Expiration
    /\ last.tx.Channel \in DOMAIN channels
    /\ channels[last.tx.Channel].Expiration = last.tx.Expiration

\* a PayChanClaim with tfClose on channel k, which has not expired
CloseClaim(k) ==
    /\ StepIs("PayChanClaim", k)
    /\ "tfClose" \in last'.tx.Flags
    /\ ~Expired(channels[k])

\* the sfBalance of channel k once the claim the transaction carries is applied
BalanceAfterClaim(k) ==
    IF last'.tx.Balance # NoAmount THEN last'.tx.Balance ELSE channels[k].Balance

\* channel k is erased by the step and its owner refunded sfAmount - sfBalance
\* (XRP on its balance, an issued amount off its locked balance, together with
\* what the carried claim moved), its ownerCount one lower
ClosedAndRefunded(k) ==
    LET slep == channels[k]
        o == slep.Account
        refund == slep.Amount.val - BalanceAfterClaim(k).val
    IN  /\ k \notin DOMAIN channels'
        /\ IF isXRP(slep.Amount)
           THEN accounts'[o].Balance = accounts[o].Balance + refund
           ELSE lines'[o].locked = lines[o].locked - (slep.Amount.val - slep.Balance.val)
        /\ accounts'[o].OwnerCount = accounts[o].OwnerCount - 1

\* C12: on a channel that has not expired, a successful PayChanClaim with tfClose
\* closes the channel in that transaction (entry erased, owner refunded sfAmount -
\* sfBalance) when the submitter is the destination, and when the submitter is the
\* owner and sfBalance equals sfAmount once the claim it carries is applied.
C12_CloseFlagClosesNow ==
    [][\A k \in DOMAIN channels :
          ( /\ CloseClaim(k)
            /\ isTesSuccess(last'.ter)
            /\ \/ last'.tx.Account = channels[k].Destination
               \/ /\ last'.tx.Account = channels[k].Account
                  /\ BalanceAfterClaim(k) = channels[k].Amount )
          => ClosedAndRefunded(k)
      ]_vars

\* C12 witness: the destination has claimed part of an unexpired channel's funds
\* and closed it in the same transaction.
C12_Witness ==
    /\ LastOk("PayChanClaim")
    /\ "tfClose" \in last.tx.Flags
    /\ last.slep # NoEntry
    /\ ~Expired(last.slep)
    /\ last.tx.Account = last.slep.Destination
    /\ last.tx.Balance # NoAmount
    /\ last.tx.Balance.val < last.slep.Amount.val
    /\ last.tx.Channel \notin DOMAIN channels

\* C13: on a channel that has not expired and whose sfBalance, the claim the
\* transaction carries applied, is below sfAmount, an owner's PayChanClaim with
\* tfClose does not erase the channel and never moves an expiration later; when it
\* succeeds it leaves the expiration at min(previous expiration if set,
\* parentCloseTime + settleDelay).
C13_OwnerCloseSetsExpiration ==
    [][\A k \in DOMAIN channels :
          ( /\ CloseClaim(k)
            /\ last'.tx.Account = channels[k].Account
            /\ BalanceAfterClaim(k).val < channels[k].Amount.val )
          => LET X == channels[k].Expiration
                 settle == parentCloseTime + channels[k].SettleDelay
             IN  /\ k \in DOMAIN channels'
                 /\ X # None
                    => /\ channels'[k].Expiration # None
                       /\ channels'[k].Expiration <= X
                 /\ isTesSuccess(last'.ter)
                    => channels'[k].Expiration =
                          IF X # None /\ X < settle THEN X ELSE settle
      ]_vars

\* C13 witness: the owner has asked to close a channel with unpaid funds whose
\* expiration was sooner than parentCloseTime + settleDelay, and that expiration
\* is still the channel's.
C13_Witness ==
    /\ LastOk("PayChanClaim")
    /\ "tfClose" \in last.tx.Flags
    /\ last.slep # NoEntry
    /\ ~Expired(last.slep)
    /\ last.tx.Account = last.slep.Account
    /\ last.slep.Expiration # None
    /\ last.slep.Expiration < parentCloseTime + last.slep.SettleDelay
    /\ last.tx.Channel \in DOMAIN channels
    /\ channels[last.tx.Channel].Balance.val < channels[last.tx.Channel].Amount.val
    /\ channels[last.tx.Channel].Expiration = last.slep.Expiration

\* channel k has unpaid funds when the step closes it: sfBalance < sfAmount, the
\* claim carried by a PayChanClaim on an unexpired channel applied
UnpaidAtClose(k) ==
    IF last'.tx.TransactionType = "PayChanClaim" /\ ~Expired(channels[k])
    THEN BalanceAfterClaim(k).val < channels[k].Amount.val
    ELSE channels[k].Balance.val < channels[k].Amount.val

\* C14: settle delay.  With T the parentCloseTime of the transaction that set a
\* channel's expiration since it was last absent, the expiration in force is never
\* sooner than T + settleDelay; an expiration installed at time t is at least
\* t + settleDelay or at least the expiration already in force; and a channel with
\* no cancelAfter and unpaid funds is erased by a transaction of the owner or of a
\* third party only at a time >= T + settleDelay.
C14_SettleDelay ==
    [][\A k \in DOMAIN channels :
          LET slep == channels[k]
              X == slep.Expiration
          IN  /\ k \in DOMAIN channels' /\ channels'[k].Expiration # None
                 => /\ expirationSetAt'[k] # None
                    /\ channels'[k].Expiration >= expirationSetAt'[k] + slep.SettleDelay
                    /\ \/ channels'[k].Expiration = X
                       \/ channels'[k].Expiration >= parentCloseTime + slep.SettleDelay
                       \/ X # None /\ channels'[k].Expiration >= X
              /\ ( /\ k \notin DOMAIN channels'
                   /\ slep.CancelAfter = None
                   /\ last'.tx.Account # slep.Destination
                   /\ UnpaidAtClose(k) )
                 => /\ X # None
                    /\ expirationSetAt[k] # None
                    /\ parentCloseTime >= expirationSetAt[k] + slep.SettleDelay
      ]_vars

\* C14 witness: a third party's transaction has swept a channel with no cancelAfter
\* and unpaid funds, a settle delay after the owner asked to close it.
C14_Witness ==
    /\ LastOk("PayChanClaim")
    /\ last.tx.Account = "carol"
    /\ last.slep # NoEntry
    /\ last.slep.CancelAfter = None
    /\ last.slep.Balance.val < last.slep.Amount.val
    /\ last.slep.Expiration # None
    /\ parentCloseTime >= last.slep.SettleDelay
    /\ last.tx.Channel \notin DOMAIN channels

\* the owner directory of account a references key after the step
DirHasAfter(a, key) == \E i \in 1..Len(dirs'[a]) : dirs'[a][i] = key

\* the legs of the round trip after the create: an owner's XRP fund of F on an
\* unexpired channel that succeeds takes F from the owner into sfAmount, and the step
\* that erases an XRP channel with sfBalance = 0, itself paying no claim, hands
\* sfAmount back to the owner,
\* lowers its ownerCount by one and leaves no directory referencing the channel
XRPFundAndCloseLegs ==
    \A k \in DOMAIN channels :
        LET slep == channels[k]
            o == slep.Account
        IN  /\ ( /\ StepIs("PayChanFund", k)
                 /\ isTesSuccess(last'.ter)
                 /\ isXRP(slep.Amount)
                 /\ ~Expired(slep) )
               => /\ accounts'[o].Balance = accounts[o].Balance - last'.tx.Amount.val
                  /\ channels'[k].Amount.val = slep.Amount.val + last'.tx.Amount.val
                  /\ channels'[k].Balance = slep.Balance
                  /\ accounts'[o].OwnerCount = accounts[o].OwnerCount
            /\ ( /\ isXRP(slep.Amount)
                 /\ slep.Balance.val = 0
                 /\ UnpaidAtClose(k)
                 /\ last'.tx.TransactionType = "PayChanClaim" /\ ~Expired(slep)
                    => last'.tx.Balance = NoAmount
                 /\ k \notin DOMAIN channels' )
               => /\ accounts'[o].Balance = accounts[o].Balance + slep.Amount.val
                  /\ accounts'[o].OwnerCount = accounts[o].OwnerCount - 1
                  /\ \A a \in AllAcct : ~DirHasAfter(a, k)

C16_CloseAllOrNothing ==
    [][\A k \in DOMAIN channels :
          (last'.tx.TransactionType = "closeChannel" /\ last'.tx.Channel = k)
          => LET slep == channels[k]
                 o == slep.Account
                 refund == slep.Amount.val - slep.Balance.val
             IN  IF isTesSuccess(last'.ter)
                 THEN /\ k \notin DOMAIN channels'
                      /\ IF isXRP(slep.Amount)
                         THEN /\ accounts'[o].Balance = accounts[o].Balance + refund
                              /\ lines' = lines
                         ELSE /\ accounts'[o].Balance = accounts[o].Balance
                              /\ lines'[o].locked = lines[o].locked - refund
                      /\ accounts'[o].OwnerCount = accounts[o].OwnerCount - 1
                 ELSE /\ k \in DOMAIN channels'
                      /\ channels'[k] = slep
                      /\ accounts' = accounts
                      /\ lines' = lines
      ]_vars

\* C16 witness: closeChannel has failed on a directory that does not reference the
\* channel, and the entry with unpaid funds is still in the ledger, the owner's
\* balance and ownerCount as they were.
C16_Witness ==
    /\ LastIs("closeChannel")
    /\ last.ter = "tefBAD_LEDGER"
    /\ last.tx.Channel \in DOMAIN channels
    /\ channels[last.tx.Channel] = last.slep
    /\ last.slep.Balance.val < last.slep.Amount.val
    /\ dirs[last.slep.Account] = <<>>
    /\ dirs[last.slep.Destination] = <<>>
    /\ accounts[last.slep.Account] = AccountRoot(4, 1)

\* a hook has been instantiated and run by the step
HookRan == last'.tx.TransactionType = "Hook" /\ last'.hookCtx.exitType # "none"

\* the program of the hook the step ran
RanCalls == Programs[hooks[last'.tx.Account].CreateCode.prog]

\* C17: the change buffer of a hook invocation is applied only if the invocation's
\* exitType is ACCEPT: when it is REJECT or ROLLBACK the buffer is discarded, and
\* the view as hook::apply left it has the HookState entries, the hook entry
\* (hookStateCount), the account roots (ownerCount) and the directories it had
\* before the invocation.
C17_CommitOnlyOnAccept ==
    [][HookRan /\ last'.hookCtx.exitType \in {"REJECT", "ROLLBACK"}
       => /\ last'.left.hookStates = hookStates
          /\ last'.left.hooks = hooks
          /\ last'.left.accounts = accounts
          /\ last'.left.dirs = dirs
      ]_vars

\* an accept / reject / rollback call takes effect unless its reason lies outside
\* the guest's memory
takesEffect(call) ==
    /\ call.op \in {"accept", "reject", "rollback"}
    /\ ~(call.b # 0 /\ (call.b > memory_length \/ call.b + call.c > memory_length))

exitTypeOf(call) ==
    CASE call.op = "accept" -> "ACCEPT"
      [] call.op = "reject" -> "REJECT"
      [] call.op = "rollback" -> "ROLLBACK"

\* the exit type of the first call of `calls` that takes effect, ROLLBACK when
\* there is none
firstExit(calls) ==
    IF \E i \in 1..Len(calls) : takesEffect(calls[i])
    THEN exitTypeOf(calls[CHOOSE i \in 1..Len(calls) :
                              /\ takesEffect(calls[i])
                              /\ \A j \in 1..(i - 1) : ~takesEffect(calls[j])])
    ELSE "ROLLBACK"

\* C18: a hook invocation that instantiates has one outcome among ACCEPT, REJECT
\* and ROLLBACK: the exit type of the first accept / reject / rollback call that takes
\* effect, ROLLBACK when the guest returns without one; hook::apply returns
\* tesSUCCESS exactly when it is ACCEPT, and terNO_AUTH otherwise.
C18_OneExitOutcome ==
    [][HookRan
       => /\ last'.hookCtx.exitType \in {"ACCEPT", "REJECT", "ROLLBACK"}
          /\ last'.hookCtx.exitType = firstExit(RanCalls)
          /\ isTesSuccess(last'.ter) <=> last'.hookCtx.exitType = "ACCEPT"
          /\ last'.hookCtx.exitType \in {"REJECT", "ROLLBACK"} => last'.ter = "terNO_AUTH"
      ]_vars

\* C18 witness: a guest whose reject call named a reason outside its memory, and so
\* did not take effect, has then accepted, a rollback call behind the accept never
\* made, and hook::apply has returned tesSUCCESS.
C18_Witness ==
    /\ LastOk("Hook")
    /\ hooks["alice"] # NoEntry
    /\ hooks["alice"].CreateCode.prog = "retry"
    /\ last.hookCtx.exitType = "ACCEPT"
    /\ last.hookCtx.rets = <<OUT_OF_BOUNDS>>
    /\ last.hookCtx.exitCode = 0

\* the HookContext of the step's guest once its first n calls have been made
ctxAfter(n) ==
    runGuest(View, newHookContext(last'.tx.Account, last'.hookCtx.wild),
             SubSeq(RanCalls, 1, n))

\* the key the i-th call of the step's guest names
keyOfCall(i) == keyFromVoid(ctxAfter(i - 1), RanCalls[i].a)

\* the guest has made no set_state on the key of its i-th call between that call and
\* its j-th one
noSetBetween(i, j) ==
    \A m \in (i + 1)..(j - 1) :
        RanCalls[m].op = "set_state" => keyOfCall(m) # keyOfCall(i)

\* C19: set_state with dataLen 0 stages a deletion. The call succeeds; when the key
\* has a HookState entry in the ledger and the guest then accepts, the commit erases
\* the entry, removes it from the owner directory and lowers hookStateCount by one;
\* when the key has no entry the ledger has none for it afterwards either.
C19_ZeroLengthDeletes ==
    [][HookRan
       => \A i \in 1..Len(last'.hookCtx.rets) :
            (RanCalls[i].op = "set_state" /\ RanCalls[i].c = 0)
            => LET a == last'.tx.Account
                   key == keyOfCall(i)
               IN  /\ last'.hookCtx.rets[i] >= 0
                   /\ (last'.hookCtx.exitType = "ACCEPT"
                       /\ noSetBetween(i, Len(RanCalls) + 1))
                      => /\ key \notin DOMAIN hookStates'[a]
                         /\ ~DirHasAfter(a, hookStateKeylet(a, key))
                         /\ key \in DOMAIN hookStates[a]
                            => hooks'[a].HookStateCount = hooks[a].HookStateCount - 1
      ]_vars

\* the deletion of C19, on a ledger that holds the entry
C19_ExistingEntryErased ==
    [][(HookRan /\ hooks["alice"].CreateCode.prog = "erase"
        /\ keyOfCall(1) \in DOMAIN hookStates["alice"])
       => keyOfCall(1) \notin DOMAIN hookStates'["alice"]
      ]_vars

\* the i-th call of the step's guest is a set_state that succeeded
setSucceeded(i) ==
    /\ i <= Len(last'.hookCtx.rets)
    /\ RanCalls[i].op = "set_state"
    /\ RanCalls[i].c > 0
    /\ last'.hookCtx.rets[i] = RanCalls[i].c

\* the data the i-th call, a set_state, hands over
dataOfCall(i) == memRead(ctxAfter(i - 1), RanCalls[i].b, RanCalls[i].c)

\* the j-th call, a get_state, returns the blob D to the guest
getReturns(j, D) ==
    /\ last'.hookCtx.rets[j] = Len(D)
    /\ memRead(ctxAfter(j), RanCalls[j].b, Len(D)) = D

\* within one invocation a get_state that follows a successful set_state on its key
\* returns the data set
ReadYourWrites ==
    HookRan
    => \A i, j \in 1..Len(last'.hookCtx.rets) :
         (/\ i < j
          /\ setSucceeded(i)
          /\ RanCalls[j].op = "get_state"
          /\ keyOfCall(j) = keyOfCall(i)
          /\ RanCalls[j].c >= RanCalls[i].c
          /\ noSetBetween(i, j))
         => getReturns(j, dataOfCall(i))

\* the data of the last successful set_state on a key is in the ledger once the
\* invocation has accepted
WritesPersist ==
    (HookRan /\ last'.hookCtx.exitType = "ACCEPT")
    => \A i \in 1..Len(last'.hookCtx.rets) :
         (setSucceeded(i) /\ noSetBetween(i, Len(RanCalls) + 1))
         => /\ keyOfCall(i) \in DOMAIN hookStates'[last'.tx.Account]
            /\ hookStates'[last'.tx.Account][keyOfCall(i)].HookData = dataOfCall(i)

\* a get_state on a key the invocation has not set returns the data the ledger holds
ReadsLedger ==
    HookRan
    => \A j \in 1..Len(last'.hookCtx.rets) :
         (/\ RanCalls[j].op = "get_state"
          /\ \A m \in 1..(j - 1) :
                RanCalls[m].op = "set_state" => keyOfCall(m) # keyOfCall(j)
          /\ keyOfCall(j) \in DOMAIN hookStates[last'.tx.Account]
          /\ RanCalls[j].c >= Len(hookStates[last'.tx.Account][keyOfCall(j)].HookData))
         => getReturns(j, hookStates[last'.tx.Account][keyOfCall(j)].HookData)

\* C20: read-your-writes and persistence of hook state. Within one invocation a
\* get_state(K) after a successful set_state(K, D), with no set_state on K between
\* them, returns D, whether or not K was read before or is in the ledger; once the
\* invocation has accepted the ledger holds D for K, and a get_state(K) of a later
\* invocation returns what the ledger holds.
C20_ReadYourWritesAndPersistence ==
    [][ReadYourWrites /\ WritesPersist /\ ReadsLedger]_vars

\* C21: in every reachable state the sfHookStateCount of an account's Hook entry
\* is the number of HookState entries the account owns in the ledger.
C21_StateCountIsEntryCount ==
    \A a \in DOMAIN hooks :
        hooks[a] # NoEntry => hooks[a].HookStateCount = Cardinality(DOMAIN hookStates[a])

\* the owner-count units the Hook entry h holds for its code, none when there is no
\* entry
reserveUnits(h) == IF h = NoEntry THEN 0 ELSE h.HookReserveCount

\* C22: every successful SetHook (install, replacement, removal, teardown) changes
\* the account's ownerCount by the difference between the sfHookReserveCount of the
\* Hook it leaves and that of the Hook it found (0 for no Hook), and the Hook it
\* leaves has the code of the transaction and sfHookReserveCount =
\* ceil(len(createCode) / (5 * hookDataMaxSize)); empty code leaves no Hook. No hook
\* being installed at first, the net change of a sequence of them is the
\* sfHookReserveCount of the installed Hook, and a removal returns the units the
\* install took.
C22_HookReserveUnits ==
    [][(last'.tx.TransactionType = "SetHook" /\ isTesSuccess(last'.ter))
       => LET a == last'.tx.Account
          IN  /\ accounts'[a].OwnerCount - accounts[a].OwnerCount
                    = reserveUnits(hooks'[a]) - reserveUnits(hooks[a])
              /\ (hooks'[a] = NoEntry) <=> (last'.tx.CreateCode.size = 0)
              /\ hooks'[a] # NoEntry
                 => /\ hooks'[a].CreateCode = last'.tx.CreateCode
                    /\ hooks'[a].HookReserveCount * (5 * hooks'[a].HookDataMaxSize)
                          >= hooks'[a].CreateCode.size
                    /\ (hooks'[a].HookReserveCount - 1) * (5 * hooks'[a].HookDataMaxSize)
                          < hooks'[a].CreateCode.size
      ]_vars

\* C22 witness: a SetHook with empty code has removed the hook of an account that
\* owns nothing else but the two HookState entries the hook stored: the ownerCount
\* left is the one unit of those entries.
C22_Witness ==
    /\ LastOk("SetHook")
    /\ last.tx.CreateCode.size = 0
    /\ last.left.hooks["alice"] = NoEntry
    /\ hooks["alice"] = NoEntry
    /\ Cardinality(DOMAIN hookStates["alice"]) = 2
    /\ channels = <<>>
    /\ accounts["alice"].OwnerCount = 1

\* C23: replacing hook code keeps the state count. A successful SetHook that
\* installs different, non-empty code on an account whose Hook has
\* sfHookStateCount = n leaves a Hook with the new code and sfHookStateCount = n,
\* and the HookState entries as they were.
C23_ReplacePreservesStateCount ==
    [][(/\ last'.tx.TransactionType = "SetHook"
        /\ isTesSuccess(last'.ter)
        /\ hooks[last'.tx.Account] # NoEntry
        /\ last'.tx.CreateCode.size # 0
        /\ last'.tx.CreateCode # hooks[last'.tx.Account].CreateCode)
       => /\ hooks'[last'.tx.Account] # NoEntry
          /\ hooks'[last'.tx.Account].CreateCode = last'.tx.CreateCode
          /\ hooks'[last'.tx.Account].HookStateCount = hooks[last'.tx.Account].HookStateCount
          /\ hookStates' = hookStates
      ]_vars

\* C23 witness: a SetHook has installed a guest that only reads, on an account whose
\* earlier guest had stored two entries: the Hook counts the two entries, which are
\* in the ledger.
C23_Witness ==
    /\ LastOk("SetHook")
    /\ last.tx.CreateCode.prog = "read"
    /\ hooks["alice"] # NoEntry
    /\ hooks["alice"].CreateCode = last.tx.CreateCode
    /\ hooks["alice"].HookStateCount = 2
    /\ Cardinality(DOMAIN hookStates["alice"]) = 2

\* the step is a SetHook with empty code on an account with no Hook entry that
\* returned tesSUCCESS: a bulk state teardown
Teardown ==
    /\ last'.tx.TransactionType = "SetHook"
    /\ isTesSuccess(last'.ter)
    /\ last'.tx.CreateCode.size = 0
    /\ hooks[last'.tx.Account] = NoEntry

C25_TeardownReturnsAllotment ==
    [][(Teardown /\ DOMAIN hookStates[last'.tx.Account] # {})
       => LET a == last'.tx.Account
              n == Cardinality(DOMAIN hookStates[a])
          IN  /\ DOMAIN hookStates'[a] = {}
              /\ hooks'[a] = NoEntry
              /\ accounts'[a].OwnerCount
                    = accounts[a].OwnerCount - COMPUTE_HOOK_DATA_OWNER_COUNT(n)
      ]_vars

\* the number of references to `key` in the directory of account a
refCount(a, key) == Cardinality({i \in 1..Len(dirs[a]) : dirs[a][i] = key})

\* every PayChan entry is referenced once by its owner's directory, and once by its
\* destination's when fixPayChanRecipientOwnerDir is enabled, its sfOwnerNode and
\* sfDestinationNode the pages of the inserts
ChannelsRegistered ==
    \A k \in DOMAIN channels :
        /\ refCount(channels[k].Account, k) = 1
        /\ channels[k].OwnerNode = DirPage
        /\ rules.fixPayChanRecipientOwnerDir
           => /\ refCount(channels[k].Destination, k) = 1
              /\ channels[k].DestinationNode = DirPage

\* every Hook entry is referenced once by its account's directory
HooksRegistered ==
    \A a \in DOMAIN hooks :
        hooks[a] # NoEntry
        => /\ refCount(a, hookKeylet(a)) = 1
           /\ hooks[a].OwnerNode = DirPage

\* every HookState entry is referenced once by its account's directory
HookStatesRegistered ==
    \A a \in DOMAIN hookStates : \A key \in DOMAIN hookStates[a] :
        /\ refCount(a, hookStateKeylet(a, key)) = 1
        /\ hookStates[a][key].OwnerNode = DirPage

\* no directory references an entry that is not in the ledger
NoDanglingReference ==
    \A a \in DOMAIN dirs : \A i \in 1..Len(dirs[a]) : entryExists(View, dirs[a][i])

\* C26: in every reachable state every PayChan, Hook and HookState entry is
\* referenced exactly once by its owner's directory, its sfOwnerNode is the page its
\* directory insert returned, no directory references an erased entry, and a PayChan
\* is referenced once by its destination's directory, through sfDestinationNode,
\* when fixPayChanRecipientOwnerDir is enabled.
C26_DirectoryConsistent ==
    /\ ChannelsRegistered
    /\ HooksRegistered
    /\ HookStatesRegistered
    /\ NoDanglingReference

\* the range lies inside the guest's linear memory; a uint32_t from 2^31 up is kept
\* as a negative number
insideMemory(r) ==
    r.len = 0 \/ (r.at >= 0 /\ r.at < memory_length /\ r.len >= 0
                  /\ r.len <= memory_length - r.at)

\* the key, data and reason ranges the arguments of a call name
argRanges(call) ==
    CASE call.op = "set_state" -> {Range(call.a, KeySize), Range(call.b, call.c)}
      [] call.op = "get_state" -> {Range(call.a, KeySize)}
      [] call.op = "output_dbg" -> {Range(call.a, call.b)}
      [] OTHER -> IF call.b # 0 THEN {Range(call.b, call.c)} ELSE {}

\* the host reads and writes no byte outside the guest's memory
AccessInsideMemory ==
    HookRan
    => \A i \in 1..Len(RanCalls) :
         (i = 1 \/ ~ctxAfter(i - 1).exited)
         => \A r \in hostAccess(View, ctxAfter(i - 1), RanCalls[i]) : insideMemory(r)

\* a call that names a range not inside the memory returns OUT_OF_BOUNDS and the
\* guest goes on
OutsideIsRefused ==
    HookRan
    => \A i \in 1..Len(RanCalls) :
         ((i = 1 \/ ~ctxAfter(i - 1).exited)
          /\ \E r \in argRanges(RanCalls[i]) : ~insideMemory(r))
         => /\ ~ctxAfter(i).exited
            /\ ctxAfter(i).rets = Append(ctxAfter(i - 1).rets, OUT_OF_BOUNDS)

\* C27: for every host-API call and every 32-bit pointer and length, wrapping sums
\* included, the host reads and writes no byte outside [0, memory_length) of the
\* guest's linear memory, and a call whose key, data or output range is not
\* entirely inside the memory returns OUT_OF_BOUNDS without ending the hook.
C27_HostApiBoundsChecked ==
    [][AccessInsideMemory /\ OutsideIsRefused]_vars

\* the calls of setHookState the commit of hookCtx makes on the view v, in the
\* order of the keys: the view before, the status and the view after each
RECURSIVE commitSteps(_, _, _)
commitSteps(v, hookCtx, keys) ==
    IF keys = <<>> THEN <<>>
    ELSE LET cacheEntry == hookCtx.changedState[Head(keys)]
             r == IF cacheEntry.modified
                  THEN setHookState(v, hookCtx.account, Head(keys), cacheEntry.blob)
                  ELSE R(tesSUCCESS, v)
         IN  <<[key |-> Head(keys), before |-> v, ter |-> r.ter, after |-> r.view]>>
             \o commitSteps(r.view, hookCtx, Tail(keys))

\* C28: when the commit of a new HookState entry would cross an allotment boundary
\* and the account's balance is below accountReserve(ownerCount + 1), the entry is
\* not created, ownerCount and hookStateCount stay as they are, and
\* tecINSUFFICIENT_RESERVE is the status of the hook application, no later entry
\* being committed under a success result.
C28_ReserveFailureReturned ==
    [][(HookRan /\ last'.hookCtx.exitType = "ACCEPT")
       => LET steps == commitSteps(View, last'.hookCtx,
                                   keysInOrder(DOMAIN last'.hookCtx.changedState))
          IN  \A i \in 1..Len(steps) :
                steps[i].ter = "tecINSUFFICIENT_RESERVE"
                => /\ steps[i].after = steps[i].before
                   /\ steps[i].key \notin DOMAIN last'.left.hookStates[last'.tx.Account]
                   /\ last'.ter = "tecINSUFFICIENT_RESERVE"
                   /\ hookStates' = hookStates
      ]_vars

StrangerFunds ==
    /\ last'.tx.TransactionType = "PayChanFund"
    /\ isTesSuccess(last'.pf)
    /\ last'.slep # NoEntry
    /\ ~Expired(last'.slep)
    /\ last'.tx.Account # last'.slep.Account

\* the step applies a PayChanClaim of an account that is neither the owner nor the
\* destination to a channel that has not expired
StrangerClaims ==
    /\ last'.tx.TransactionType = "PayChanClaim"
    /\ isTesSuccess(last'.pf)
    /\ last'.slep # NoEntry
    /\ ~Expired(last'.slep)
    /\ last'.tx.Account \notin {last'.slep.Account, last'.slep.Destination}

\* C30: on a channel that has not expired, a PayChanFund of any account but the
\* owner and a PayChanClaim of any account but the owner and the destination return
\* tecNO_PERMISSION, and leave the channel (amount, balance, expiration), every
\* account and every trust line as they were.
C30_StrangersRefused ==
    [][(StrangerFunds \/ StrangerClaims)
       => /\ last'.ter = "tecNO_PERMISSION"
          /\ channels' = channels
          /\ accounts' = accounts
          /\ lines' = lines
      ]_vars

\* the step applies a PayChanClaim with tfRenew of `who` (the channel's owner or
\* its destination) to a channel that has not expired
RenewsAs(who) ==
    /\ last'.tx.TransactionType = "PayChanClaim"
    /\ isTesSuccess(last'.pf)
    /\ "tfRenew" \in last'.tx.Flags
    /\ last'.slep # NoEntry
    /\ ~Expired(last'.slep)
    /\ last'.tx.Account = last'.slep[who]

\* the status the owner gets in the same ledger for the transaction the step applied
AsOwner ==
    PayChanClaim_doApply(View, [last'.tx EXCEPT !.Account = last'.slep.Account]).ter

\* the step leaves the channel it names, every account and every trust line as they were
RenewLeftNothing ==
    /\ last'.tx.Channel \in DOMAIN channels'
    /\ channels'[last'.tx.Channel] = last'.slep
    /\ accounts' = accounts
    /\ lines' = lines

\* the owner's successful tfRenew leaves the channel without sfExpiration
OwnerRenewClears ==
    RenewsAs("Account") /\ isTesSuccess(last'.ter)
        => /\ last'.tx.Channel \in DOMAIN channels'
           /\ channels'[last'.tx.Channel].Expiration = None

\* C31 as stated: the owner's successful PayChanClaim with tfRenew on an unexpired
\* channel leaves the channel with no expiration, and the same transaction of the
\* destination returns tecNO_PERMISSION, clears no expiration and pays no Balance.
C31_DestinationGetsNoPermission ==
    [][ /\ OwnerRenewClears
        /\ RenewsAs("Destination") /\ isTesSuccess(AsOwner)
            => last'.ter = "tecNO_PERMISSION" /\ RenewLeftNothing
      ]_vars

\* C31: the owner's successful PayChanClaim with tfRenew on an unexpired channel
\* leaves the channel with no expiration; a destination's PayChanClaim with tfRenew
\* never succeeds, clears no expiration and pays no Balance, and the transaction
\* that succeeds for the owner returns, for the destination, temBAD_SIGNATURE when it
\* carries an sfBalance without sfSignature and tecNO_PERMISSION otherwise.
C31_RenewIsOwnerOnly ==
    [][(last'.tx.TransactionType = "PayChanClaim" /\ "tfRenew" \in last'.tx.Flags)
       => /\ OwnerRenewClears
          /\ RenewsAs("Destination")
              => ~isTesSuccess(last'.ter) /\ RenewLeftNothing
          /\ RenewsAs("Destination") /\ isTesSuccess(AsOwner)
              => last'.ter = IF last'.tx.Balance # NoAmount /\ last'.tx.Signature = NoSig
                             THEN "temBAD_SIGNATURE"
                             ELSE "tecNO_PERMISSION"
      ]_vars

\* C31 witness: the owner's claim with tfRenew has paid the destination and removed
\* the expiration of a channel that had one and had not reached it.
C31_Witness ==
    /\ LastOk("PayChanClaim")
    /\ "tfRenew" \in last.tx.Flags
    /\ last.tx.Balance # NoAmount
    /\ last.slep # NoEntry
    /\ last.tx.Account = last.slep.Account
    /\ last.slep.Expiration # None
    /\ last.tx.Channel \in DOMAIN channels
    /\ channels[last.tx.Channel].Expiration = None
    /\ channels[last.tx.Channel].Balance.val > last.slep.Balance.val

\* the commit step s overwrites an existing HookState entry with non-empty data
Overwrites(s, hookCtx) ==
    /\ hookCtx.changedState[s.key].modified
    /\ Len(hookCtx.changedState[s.key].blob) > 0
    /\ s.key \in DOMAIN s.before.hookStates[hookCtx.account]
    /\ isTesSuccess(s.ter)

\* the overwrite of step s replaces the blob and nothing else
BlobReplaced(s, hookCtx) ==
    LET a == hookCtx.account
        ksl == hookStateKeylet(a, s.key)
    IN  /\ s.key \in DOMAIN s.after.hookStates[a]
        /\ s.after.hookStates[a][s.key].HookData = hookCtx.changedState[s.key].blob
        /\ s.after.hookStates[a][s.key].OwnerNode = s.before.hookStates[a][s.key].OwnerNode
        /\ s.after.hookStates[a][s.key].OwnerNode # None
        /\ Len(SelectSeq(s.after.dirs[a], LAMBDA k : k = ksl)) = 1
        /\ s.after.hooks[a].HookStateCount = s.before.hooks[a].HookStateCount
        /\ s.after.accounts[a].OwnerCount = s.before.accounts[a].OwnerCount

\* a deletion of the key of step s, made after it, removes the entry and its reference
DeletableAfter(s, hookCtx) ==
    LET a == hookCtx.account
        del == setHookState(s.after, a, s.key, <<>>)
    IN  /\ isTesSuccess(del.ter)
        /\ s.key \notin DOMAIN del.view.hookStates[a]
        /\ ~dirHas(del.view, a, hookStateKeylet(a, s.key))

\* C32: when an accepted hook commits non-empty data D for a key K that already has
\* a HookState entry, afterwards the entry for K holds D, carries the sfOwnerNode of
\* its directory registration, is referenced exactly once by the owner directory,
\* hookStateCount and ownerCount are unchanged, and a later deletion of K removes
\* it from the directory.
C32_OverwriteIsBlobReplacement ==
    [][(HookRan /\ last'.hookCtx.exitType = "ACCEPT")
       => LET steps == commitSteps(View, last'.hookCtx,
                                   keysInOrder(DOMAIN last'.hookCtx.changedState))
          IN  \A i \in 1..Len(steps) :
                Overwrites(steps[i], last'.hookCtx)
                => /\ BlobReplaced(steps[i], last'.hookCtx)
                   /\ DeletableAfter(steps[i], last'.hookCtx)
      ]_vars

\* ceil(len(code) / (5 * maxHookDataSize)) of the code a SetHook carries
unitsOfTx(tx) == Ceil(tx.CreateCode.size, 5 * maxHookDataSize)

\* the step applies a SetHook that installs, replaces or removes a hook on an account
\* whose balance is below accountReserve(ownerCount + (newReserveUnits -
\* previousReserveUnits))
SetHookShortOfReserve ==
    /\ last'.tx.TransactionType = "SetHook"
    /\ isTesSuccess(last'.pf)
    /\ ~(last'.tx.CreateCode.size = 0 /\ hooks[last'.tx.Account] = NoEntry)
    /\ accounts[last'.tx.Account].Balance <
           accountReserve(accounts[last'.tx.Account].OwnerCount
                          + unitsOfTx(last'.tx)
                          - (IF hooks[last'.tx.Account] = NoEntry THEN 0
                             ELSE hooks[last'.tx.Account].HookReserveCount))

\* C33: a SetHook on an account whose balance is below accountReserve(ownerCount +
\* (newReserveUnits - previousReserveUnits)) returns tecINSUFFICIENT_RESERVE, and the
\* Hook entry installed before it (code, hookOn, hookStateCount, hookReserveCount),
\* its directory reference and the account's ownerCount are as before the transaction.
C33_ReserveFailureKeepsHook ==
    [][SetHookShortOfReserve
       => /\ last'.ter = "tecINSUFFICIENT_RESERVE"
          /\ hooks' = hooks
          /\ dirs' = dirs
          /\ hookStates' = hookStates
          /\ accounts' = accounts
      ]_vars

\* C33 witness: the replacement of an installed hook by a larger one has failed the
\* reserve check after removeHookFromLedger took the old hook out of its view, and
\* the ledger still holds the old hook and its directory reference.
C33_Witness ==
    /\ LastIs("SetHook")
    /\ last.ter = "tecINSUFFICIENT_RESERVE"
    /\ last.left.hooks[last.tx.Account] = NoEntry
    /\ ~dirHas(last.left, last.tx.Account, hookKeylet(last.tx.Account))
    /\ hooks[last.tx.Account] # NoEntry
    /\ hooks[last.tx.Account].CreateCode # last.tx.CreateCode
    /\ unitsOfTx(last.tx) > hooks[last.tx.Account].HookReserveCount
    /\ dirHas(View, last.tx.Account, hookKeylet(last.tx.Account))

\* the step applies, to a channel that has not expired, a PayChanFund whose sfAmount
\* or a PayChanClaim whose sfBalance is not of the issue of the channel's sfAmount
OtherAssetApplied ==
    /\ last'.slep # NoEntry
    /\ ~Expired(last'.slep)
    /\ \/ /\ last'.tx.TransactionType = "PayChanFund"
          /\ last'.tx.Amount.cur # last'.slep.Amount.cur
       \/ /\ last'.tx.TransactionType = "PayChanClaim"
          /\ last'.tx.Balance # NoAmount
          /\ last'.tx.Balance.cur # last'.slep.Amount.cur

\* no fund and no claim in another asset succeeds
OtherAssetRefused == OtherAssetApplied => ~isTesSuccess(last'.ter)

\* a channel is created with sfAmount and sfBalance of the issue of the create's
\* sfAmount, and keeps both while it is in the ledger
DenominationKept ==
    \A k \in DOMAIN channels' :
        IF k \in DOMAIN channels
        THEN /\ channels'[k].Amount.cur = channels[k].Amount.cur
             /\ channels'[k].Balance.cur = channels[k].Balance.cur
        ELSE /\ channels'[k].Amount.cur = last'.tx.Amount.cur
             /\ channels'[k].Balance.cur = last'.tx.Amount.cur

\* C34: the asset of a channel is fixed for its life: no PayChanFund whose sfAmount,
\* and no PayChanClaim whose sfBalance, is of a currency or issuer other than the
\* channel's sfAmount succeeds, and the channel's sfAmount and sfBalance stay of the
\* currency and issuer the channel was created with.
C34_AssetFixedForLife ==
    [][OtherAssetRefused /\ DenominationKept]_vars

\* the sum of the values the function f takes on the set S
RECURSIVE SumOver(_, _)
SumOver(S, f) ==
    IF S = {} THEN 0
    ELSE LET x == CHOOSE y \in S : TRUE
         IN  f[x] + SumOver(S \ {x}, f)

\* the sum of the values of a function
Sum(f) == SumOver(DOMAIN f, f)

\* the XRP of a ledger: the balances of its accounts and, for every XRP channel,
\* the funds the channel still holds, sfAmount - sfBalance
TotalXRP(accts, chans) ==
    Sum([a \in DOMAIN accts |-> IF accts[a] = NoEntry THEN 0 ELSE accts[a].Balance])
    + Sum([k \in DOMAIN chans |->
              IF isXRP(chans[k].Amount) THEN chans[k].Amount.val - chans[k].Balance.val
              ELSE 0])

\* the XRP of the ledger the behaviour started from: the accounts of the initial
\* ledgers and, where the token amendment is off, the inherited XRP channel
XRPAtStart ==
    Sum([a \in AllAcct |-> CASE a = "alice" -> AccountRoot(4, 0).Balance
                             [] a = "dave" -> 0
                             [] OTHER -> AccountRoot(2, 0).Balance])
    + (IF rules.PaychanAndEscrowForTokens THEN 0
       ELSE Chan0(TRUE).Amount.val - Chan0(TRUE).Balance.val)

\* the doApply of an XRP PayChanCreate that succeeds moves its sfAmount from the
\* owner to the new channel, whose sfBalance is zero, and changes no other balance
\* and no other channel
CreateConserves ==
    \A tx \in {t \in CreateTxs : isXRP(t.Amount)} :
        LET key == payChanKeylet(tx.Account, tx.Destination, tx.Sequence)
            r == PayChanCreate_doApply(View, tx, "nowhere")
        IN  (key \notin DOMAIN channels /\ isTesSuccess(r.ter))
            => /\ r.view.accounts[tx.Account].Balance
                      = accounts[tx.Account].Balance - tx.Amount.val
               /\ \A a \in DOMAIN accounts \ {tx.Account} :
                      r.view.accounts[a] = accounts[a]
               /\ r.view.channels[key].Amount = tx.Amount
               /\ r.view.channels[key].Balance = XRP(0)
               /\ \A k \in DOMAIN channels : r.view.channels[k] = channels[k]

\* a successful claim on an XRP channel that has not expired credits the destination
\* the increase of sfBalance
ClaimCreditsIncrease ==
    \A k \in DOMAIN channels :
        ( /\ StepIs("PayChanClaim", k)
          /\ isTesSuccess(last'.ter)
          /\ isXRP(channels[k].Amount)
          /\ ~Expired(channels[k]) )
        => accounts'[channels[k].Destination].Balance =
               accounts[channels[k].Destination].Balance
               + (BalanceAfterClaim(k).val - channels[k].Balance.val)

\* a step that erases an XRP channel credits the owner sfAmount - sfBalance, the
\* sfBalance being the one a claim carried by the transaction has left
CloseCreditsRest ==
    \A k \in DOMAIN channels \ DOMAIN channels' :
        isXRP(channels[k].Amount)
        => accounts'[channels[k].Account].Balance =
               accounts[channels[k].Account].Balance
               + channels[k].Amount.val
               - (IF last'.tx.TransactionType = "PayChanClaim" /\ ~Expired(channels[k])
                  THEN BalanceAfterClaim(k).val
                  ELSE channels[k].Balance.val)

\* C35: XRP is conserved: the sum of the XRP balances of the accounts and of sfAmount
\* - sfBalance over the XRP channels is, after every sequence of PayChanCreate,
\* PayChanFund and PayChanClaim and of the closes they trigger, what it was at the
\* start (fees aside), no transaction changing it; each claim credits
\* the destination the increase of sfBalance, and each close credits the owner
\* sfAmount - sfBalance.
C35_XRPConserved ==
    /\ [](TotalXRP(accounts, channels) = XRPAtStart /\ CreateConserves)
    /\ [][ClaimCreditsIncrease /\ CloseCreditsRest]_vars

\* C35 witness: a claim has paid the destination out of an XRP channel and closed
\* it, the owner receiving the rest of the funds.
C35_Witness ==
    /\ LastOk("PayChanClaim")
    /\ last.slep # NoEntry
    /\ isXRP(last.slep.Amount)
    /\ last.tx.Balance # NoAmount
    /\ last.tx.Balance.val > last.slep.Balance.val
    /\ last.tx.Balance.val < last.slep.Amount.val
    /\ last.tx.Channel \notin DOMAIN channels

=============================================================================
